------------------------------ MODULE MCTunUnix ------------------------------
EXTENDS TunUnix
=============================================================================
