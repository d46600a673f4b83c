------------------------------ MODULE MCFragments ------------------------------
EXTENDS Fragments
=============================================================================
