------------------------------ MODULE MCTunWinIo ------------------------------
EXTENDS TunWinIo
=============================================================================
