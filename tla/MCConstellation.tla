-------------------------- MODULE MCConstellation --------------------------
EXTENDS Constellation
=============================================================================
