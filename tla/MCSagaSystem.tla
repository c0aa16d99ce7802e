---------------------------- MODULE MCSagaSystem ----------------------------
EXTENDS SagaClaims, TLC

CONSTANTS a1, c1, c2

(* Callers are interchangeable: no definition names one.                   *)
Sym == Permutations({c1, c2})

=============================================================================
