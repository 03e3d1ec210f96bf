------------------------------- MODULE Utils -------------------------------
(***************************************************************************)
(* UTILS.c and the names of rtnl_rtntype_n2a and rtnl_rtntype_a2n          *)
(* (ip_functions.c): what the parsers make of a text, with the widths of   *)
(* the machine scaled down.  Everything is a function of its arguments.    *)
(***************************************************************************)
EXTENDS Integers, Sequences, SequencesExt, FiniteSets

CONSTANTS BitsLong,         \* bits of long, int and their unsigned forms
          BitsCorto,        \* bits of __s16 and __u16
          BitsByte,         \* bits of __s8, __u8 and an octet
          Palabra,          \* bits of the words inet_addr_match compares
          NumerosTexto,     \* numbers that a text spells
          Direcciones,      \* texts of addresses and prefixes
          Cadenas,          \* bytes to be written in hexadecimal
          Huecos            \* lengths of buffers
---------------------------------------------------------------------------
(* Numbers.  A text is [num, entero]: the number its longest prefix spells *)
(* and whether that is all of it; an empty or absent text is not "entero". *)

\* Two to the n.
DosA(n) ==
  LET D[k \in 0..n] == IF k = 0 THEN 1 ELSE 2 * D[k - 1]
  IN D[n]

MaxS(b) == DosA(b - 1) - 1
MinS(b) == -DosA(b - 1)
MaxU(b) == DosA(b) - 1

\* strtol stops at the ends of long; strtoul at ULONG_MAX, and it negates a
\* number with a minus sign in the unsigned type.
strtol(n) == IF n > MaxS(BitsLong) THEN MaxS(BitsLong)
             ELSE IF n < MinS(BitsLong) THEN MinS(BitsLong) ELSE n
strtoul(n) == IF n > MaxU(BitsLong) \/ -n > MaxU(BitsLong) THEN MaxU(BitsLong)
              ELSE n % DosA(BitsLong)

Error == [ret |-> -1, val |-> 0]
Vale(t, n, min, max) ==
  IF t.entero /\ min <= n /\ n <= max THEN [ret |-> 0, val |-> n] ELSE Error

get_integer(t) == Vale(t, strtol(t.num), MinS(BitsLong), MaxS(BitsLong))
get_unsigned(t) == Vale(t, strtoul(t.num), 0, MaxU(BitsLong))
get_u32(t) == Vale(t, strtoul(t.num), 0, MaxU(BitsLong))
get_u16(t) == Vale(t, strtoul(t.num), 0, MaxU(BitsCorto))
get_u8(t) == Vale(t, strtoul(t.num), 0, MaxU(BitsByte))
get_s16(t) == Vale(t, strtol(t.num), MinS(BitsCorto), MaxS(BitsCorto))
\* Mutant: the lower limit is forgotten.
get_s8SinMinimo(t) == Vale(t, strtol(t.num), MinS(BitsLong), MaxS(BitsByte))

get_s8(t) == Vale(t, strtol(t.num), MinS(BitsByte), MaxS(BitsByte))
---------------------------------------------------------------------------
(* Addresses.  A text is [clase, grupos, plen]: clase is "default" for the *)
(* three words, "v6" or "mal6" for a text with a colon that inet_pton      *)
(* takes or not, "v4" for a text of digits and dots, whose grupos are the  *)
(* numbers between the dots (0 where there are no digits), "otro" for any  *)
(* other; plen is the text after the slash, or SinPlen.  An octet has      *)
(* BitsByte bits.  inet_pton and dnet_pton are external.                   *)

SinPlen == [num |-> 0, entero |-> FALSE, hay |-> FALSE]
Prefijo(f, by, bi, oct) == [ret |-> 0, family |-> f, bytelen |-> by, bitlen |-> bi, data |-> oct]
Malo == Prefijo("unspec", 0, 0, <<>>)
Falla == [Malo EXCEPT !.ret = -1]
Largo4 == 4
Largo6 == 16

\* The octets of a dotted text: each wraps, and those missing are zero.
Octetos(gs) == [k \in 1..Largo4 |-> IF k <= Len(gs) THEN gs[k] % DosA(BitsByte) ELSE 0]

get_addr_1(t, family) ==
  CASE t.clase = "default" ->
         IF family = "dn" THEN Falla
         ELSE Prefijo(family, IF family = "inet6" THEN Largo6 ELSE Largo4, -1, <<>>)
    [] t.clase \in {"v6", "mal6"} ->
         IF family \in {"unspec", "inet6"} /\ t.clase = "v6" THEN Prefijo("inet6", Largo6, -1, <<>>) ELSE Falla
    [] t.clase \in {"v4", "otro"} /\ family = "dn" ->
         IF t.clase = "v4" /\ Len(t.grupos) = 2 THEN Prefijo("dn", 2, -1, <<>>) ELSE Falla
    [] OTHER ->
         IF t.clase = "v4" /\ family \in {"unspec", "inet"} /\ Len(t.grupos) <= Largo4
         THEN Prefijo("inet", Largo4, -1, Octetos(t.grupos)) ELSE Falla

\* Mutant: the length of IPv6 addresses for all.
EnteraDeTodas(family) == Largo6 * BitsByte

\* bitlen of a whole address of each family.
Entera(family) == CASE family = "inet6" -> Largo6 * BitsByte
                    [] family = "dn" -> 2 * BitsByte
                    [] OTHER -> Largo4 * BitsByte

\* plen is read as an int into an unsigned: a negative one is too long.
get_prefix_1(t, family) ==
  IF t.clase = "default" /\ ~t.plen.hay
  THEN IF family = "dn" THEN Falla ELSE Prefijo(family, 0, 0, <<>>)
  ELSE LET a == get_addr_1(t, family)
           n == get_integer(t.plen)
           u == n.val % DosA(BitsLong)
       IN IF a.ret # 0 THEN Falla
          ELSE IF ~t.plen.hay THEN [a EXCEPT !.bitlen = Entera(a.family)]
          ELSE IF n.ret # 0 \/ u > Entera(a.family) THEN Falla
          ELSE [a EXCEPT !.bitlen = u]

\* The two for arguments, which end the program (ret 1) on any error.
Sale == [Malo EXCEPT !.ret = 1]
get_addr(t, family) ==
  IF family = "packet" \/ get_addr_1(t, family).ret # 0 THEN Sale ELSE get_addr_1(t, family)
get_prefix(t, family) ==
  IF family = "packet" \/ get_prefix_1(t, family).ret # 0 THEN Sale ELSE get_prefix_1(t, family)
get_addr32(t) == get_addr(t, "inet")

\* Mutant: only whole words are compared.
inet_addr_matchPalabras(a, b, bits) ==
  SubSeq(a, 1, (bits \div Palabra) * Palabra) = SubSeq(b, 1, (bits \div Palabra) * Palabra)

\* Addresses of two prefixes agree on their first bits: whole words with
\* memcmp, what is left under a mask.
inet_addr_match(a, b, bits) ==
  LET words == bits \div Palabra
      resto == bits % Palabra
  IN /\ SubSeq(a, 1, words * Palabra) = SubSeq(b, 1, words * Palabra)
     /\ resto > 0 => \A k \in 1..resto : a[words * Palabra + k] = b[words * Palabra + k]
---------------------------------------------------------------------------
(* Names of the types of a route, n2a and a2n.                             *)

\* Words with a beginning in common, and how much of it.
Comunes(p, q) ==
  CASE {p, q} = {"broadcast", "brd"} -> 2
    [] {p, q} = {"unreachable", "unicast"} -> 2
    [] {p, q} \in {{"broadcast", "blackhole"}, {"blackhole", "brd"}} -> 1
    [] OTHER -> 0

\* A text is [de, k]: the first k letters of word de, or all of it.
Letras(w) == CASE w \in {"anycast", "unicast"} -> 7
               [] w \in {"broadcast", "multicast", "blackhole"} -> 9
               [] w \in {"local", "throw"} -> 5
               [] w \in {"nat", "brd"} -> 3
               [] w = "none" -> 4
               [] OTHER -> IF w = "unreachable" THEN 11 ELSE 8
matches(t, w) == t.k <= IF t.de = w THEN Letras(w) ELSE Comunes(t.de, w)
strcmp(t, w) == t.de = w /\ t.k = Letras(w)

\* The number each name stands for, as linux/rtnetlink.h orders them.
Tipos == <<"unicast", "local", "broadcast", "anycast", "multicast", "blackhole",
           "unreachable", "prohibit", "throw", "nat", "xresolve">>
Numero(w) == CHOOSE n \in DOMAIN Tipos : Tipos[n] = w

\* A number without a name is written as such: [de |-> "num", k |-> id].
rtnl_rtntype_n2a(id) ==
  IF id = 0 THEN [de |-> "none", k |-> 4]
  ELSE IF id \in DOMAIN Tipos THEN [de |-> Tipos[id], k |-> Letras(Tipos[id])]
  ELSE [de |-> "num", k |-> id]

\* Mutant: a word is left out.
AbreviablesSinMulticast == <<"broadcast", "anycast", "prohibit", "unreachable",
                             "blackhole", "xresolve", "unicast">>

\* Whole words first, then beginnings in this order, then a number.
Abreviables == <<"broadcast", "anycast", "multicast", "prohibit", "unreachable",
                 "blackhole", "xresolve", "unicast">>
rtnl_rtntype_a2n(t) ==
  LET n == SelectInSeq(Abreviables, LAMBDA w : matches(t, w))
  IN CASE t.de = "num" -> IF t.k <= 255 THEN [ret |-> 0, val |-> t.k] ELSE Error
       [] t.de # "num" /\ \E w \in {"local", "nat", "throw"} : strcmp(t, w) ->
            [ret |-> 0, val |-> Numero(t.de)]
       [] strcmp(t, "brd") -> [ret |-> 0, val |-> Numero("broadcast")]
       [] OTHER -> IF n > 0 THEN [ret |-> 0, val |-> Numero(Abreviables[n])] ELSE Error
---------------------------------------------------------------------------
(* Bytes as text: pairs of digits with colons between them.  A text is the *)
(* sequence of the numbers between its colons and, written into a buffer,  *)
(* whether a zero ends it.                                                 *)

\* A pair goes in while three characters are left, and a colon behind it
\* while two are, over the zero of the pair: with no room for the next pair
\* the text then has no end.
hexstring_n2a(str, blen) ==
  LET k == IF blen \div 3 < Len(str) THEN blen \div 3 ELSE Len(str)
  IN [grupos |-> SubSeq(str, 1, k),
      fin |-> k > 0 /\ (k = Len(str) \/ blen = 3 * k)]

\* Groups above a byte are refused (they are read into an unsigned), those
\* that do not fit dropped, and the rest of the buffer is cleared.
hexstring_a2n(grupos, blen) ==
  LET acc == [k \in DOMAIN grupos |-> grupos[k] % DosA(BitsLong)]
  IN IF \E k \in DOMAIN acc : acc[k] > MaxU(BitsByte) THEN <<>>
     ELSE [k \in 1..blen |-> IF k <= Len(acc) THEN acc[k] ELSE 0]
---------------------------------------------------------------------------
(* What they promise.                                                      *)

TextoDireccion ==
  [clase : {"default", "v6", "mal6", "v4", "otro"}, grupos : Seq(Nat),
   plen : [num : Int, entero : BOOLEAN, hay : BOOLEAN]]

\* A byte, a short and a long grow in this order, and the bits of an address
\* can be counted with an int.
ASSUME UtilsAssumption ==
  /\ BitsByte \in Nat \ {0} /\ Palabra \in Nat \ {0}
  /\ BitsCorto \in Nat /\ BitsLong \in Nat
  /\ BitsByte < BitsCorto /\ BitsCorto < BitsLong
  /\ Largo6 * BitsByte < MaxS(BitsLong)
  /\ NumerosTexto \subseteq Int
  /\ Direcciones \subseteq TextoDireccion
  /\ Cadenas \subseteq Seq(0..MaxU(BitsByte))
  /\ Huecos \subseteq Nat

\* r, read from a whole text that spells n, for a type from min to max; ancho:
\* the type is as wide as the long it is read into.
BienLeido(n, r, min, max, ancho) ==
  /\ n \in min..max => r = [ret |-> 0, val |-> n]
  /\ r.ret = 0 => r.val \in min..max
  /\ n > max /\ r.ret = 0 => ancho /\ r.val = max
  /\ n < min /\ r.ret = 0 => IF min = 0 THEN r.val \in {n + DosA(BitsLong), MaxU(BitsLong)}
                            ELSE ancho /\ r.val = min

\* A number in the range of the type is read as it is.  One out of it is refused
\* by the narrow types and saturates in the wide ones; only behind a minus sign
\* does a number too low become another of an unsigned type: itself modulo the
\* width of long, or the largest (UTILS.c:32-128).
EnterosBien ==
  \A n \in NumerosTexto :
    LET t == [num |-> n, entero |-> TRUE]
    IN /\ BienLeido(n, get_integer(t), MinS(BitsLong), MaxS(BitsLong), TRUE)
       /\ BienLeido(n, get_unsigned(t), 0, MaxU(BitsLong), TRUE)
       /\ BienLeido(n, get_u32(t), 0, MaxU(BitsLong), TRUE)
       /\ BienLeido(n, get_u16(t), 0, MaxU(BitsCorto), FALSE)
       /\ BienLeido(n, get_u8(t), 0, MaxU(BitsByte), FALSE)
       /\ BienLeido(n, get_s16(t), MinS(BitsCorto), MaxS(BitsCorto), FALSE)
       /\ BienLeido(n, get_s8(t), MinS(BitsByte), MaxS(BitsByte), FALSE)

\* A prefix that is taken is of the family asked for, its length the one given
\* and within the address, or none for a word without an address; octets above
\* a byte wrap and no other text changes its value.  Whoever asks for IPv6 and
\* gives any other kind of text ends the program (UTILS.c:130-271).
PrefijoBien(t, f) ==
  LET p == get_prefix(t, f)
  IN /\ p.ret \in {0, 1}
     /\ p.ret = 0 =>
          /\ f # "unspec" => p.family = f
          /\ p.bitlen \in 0..(BitsByte * p.bytelen)
          /\ p.bytelen = 0 <=> (t.clase = "default" /\ ~t.plen.hay)
          /\ t.plen.hay => p.bitlen = t.plen.num
          /\ p.family = "inet" /\ t.clase = "v4" =>
               \A k \in DOMAIN t.grupos :
                 t.grupos[k] \in 0..MaxU(BitsByte) => p.data[k] = t.grupos[k]
     /\ f = "inet6" /\ p.ret = 0 => t.clase \in {"v6", "default"}
     /\ /\ t.clase = "v6" /\ f \in {"unspec", "inet6"}
        /\ t.plen.hay /\ t.plen.entero /\ t.plen.num \in 0..(BitsByte * Largo6)
        => p.ret = 0
PrefijosBien ==
  \A t \in Direcciones, f \in {"unspec", "inet", "inet6", "dn", "packet"} : PrefijoBien(t, f)

\* The name of a type gives that type, except the "none" of type 0, which is
\* refused, and every text taken as a type is the beginning of its name, or of
\* "brd".
TipoIdaYVuelta ==
  /\ rtnl_rtntype_a2n(rtnl_rtntype_n2a(0)) = Error
  /\ \A id \in 1..255 : rtnl_rtntype_a2n(rtnl_rtntype_n2a(id)) = [ret |-> 0, val |-> id]
  /\ \A w \in {Tipos[n] : n \in DOMAIN Tipos} \cup {"brd", "none"} : \A k \in 1..Letras(w) :
       LET r == rtnl_rtntype_a2n([de |-> w, k |-> k])
       IN r.ret = 0 => matches([de |-> w, k |-> k], Tipos[r.val]) \/ (w = "brd" /\ Tipos[r.val] = "broadcast")

\* What is written in hexadecimal is a beginning of the bytes, all of them if the
\* buffer has three characters for each, and then the text has an end; a text
\* with an end is read back as the bytes it holds, and zeros.  Nothing is said of
\* reading one without an end, where the reader goes on past the buffer.
HexIdaYVuelta(str, blen, largo) ==
  LET x == hexstring_n2a(str, blen)
  IN /\ IsPrefix(x.grupos, str)
     /\ 3 * Len(str) <= blen => x.grupos = str
     /\ x.grupos = str /\ str # <<>> => x.fin
     /\ x.fin => hexstring_a2n(x.grupos, largo) =
                  [k \in 1..largo |-> IF k <= Len(x.grupos) THEN str[k] ELSE 0]

\* What is written, and has an end, is read back (ip_functions.c:585-654,
\* UTILS.c:473-528).
VueltaBien ==
  TipoIdaYVuelta /\ \A str \in Cadenas, blen, largo \in Huecos : HexIdaYVuelta(str, blen, largo)
============================================================================
