----------------------------- MODULE MCMirrors -----------------------------
EXTENDS Mirrors
=============================================================================
