-------------------------------- MODULE Lists --------------------------------
(***************************************************************************)
(* The operators of SequencesExt that the components of the registry use,  *)
(* by the names they have there.                                           *)
(*                                                                         *)
(* Registry instantiates its components.  Each instance of a component     *)
(* that EXTENDS SequencesExt would define that whole library once more,    *)
(* with the modules it rests on, and the prover carries every definition   *)
(* of every instance into every step of every proof about the registry.    *)
(***************************************************************************)
EXTENDS Integers, Sequences, FiniteSets

Last(s) == s[Len(s)]
Front(s) == SubSeq(s, 1, Len(s) - 1)

ToSet(s) == {s[i] : i \in DOMAIN s}
Contains(s, e) == \E i \in DOMAIN s : s[i] = e

IsPrefix(s, t) == Len(s) <= Len(t) /\ s = SubSeq(t, 1, Len(s))
IsStrictPrefix(s, t) == IsPrefix(s, t) /\ s # t

\* The sequences over a set of at most n elements.
BoundedSeq(S, n) == UNION {[1..m -> S] : m \in 0..n}

\* The sequences in which each element of a finite set occurs once.
SetToSeqs(S) == LET Spot == 1..Cardinality(S) IN
  {f \in [Spot -> S] : \A i, j \in Spot : f[i] = f[j] => i = j}
==============================================================================
