------------------------------- MODULE MCToxTun -------------------------------
EXTENDS ToxTunProperties, TLC

Symmetry == Permutations(Node)
=============================================================================
