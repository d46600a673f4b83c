------------------------------- MODULE MCToxTunC -------------------------------
EXTENDS ToxTunC
=============================================================================
