---------------------------- MODULE Seleccion -----------------------------
(***************************************************************************)
(* What several programs do with a list they walk once: keep, in order,    *)
(* the elements that qualify.  It is SelectSeq with a set for its test,    *)
(* written as a recursive function.                                        *)
(***************************************************************************)
EXTENDS Integers, Sequences

\* The elements of s that are in S, in order.
Escoge(s, S) ==
  LET F[n \in 0 .. Len(s)] ==
        IF n = 0 THEN << >>
        ELSE IF s[n] \in S THEN Append(F[n - 1], s[n]) ELSE F[n - 1]
  IN  F[Len(s)]
============================================================================
