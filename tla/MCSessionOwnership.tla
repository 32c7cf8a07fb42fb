-------------------------- MODULE MCSessionOwnership --------------------------
EXTENDS SessionOwnership, TLC
CONSTANTS c1, c2
=============================================================================
