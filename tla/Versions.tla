------------------------------ MODULE Versions ------------------------------
(***************************************************************************)
(* The order of client versions (internal/control/version.go).  A version  *)
(* is the sequence of its components; one that is not a number is Junk,    *)
(* and none is negative.                                                   *)
(***************************************************************************)
EXTENDS Integers, Sequences

Junk == -1

\* A component that is missing or not a number counts as zero.
Component(parts, i) == IF i \in DOMAIN parts /\ parts[i] # Junk THEN parts[i] ELSE 0

Differing(a, b) ==
  {i \in DOMAIN a \cup DOMAIN b : Component(a, i) # Component(b, i)}

\* faulty: any smaller component makes the version smaller
AnyLess(a, b) == \E i \in Differing(a, b) : Component(a, i) < Component(b, i)

VersionLess(a, b) ==
  \E i \in Differing(a, b) :
    /\ Component(a, i) < Component(b, i)
    /\ \A j \in Differing(a, b) : i <= j
=============================================================================
