------------------------------ MODULE MCRunner ------------------------------
EXTENDS RunnerClaims, TLC

CONSTANTS a1, w1, w2, w3

=============================================================================
