---------------------------- MODULE MCTeardown ----------------------------
EXTENDS Teardown
===========================================================================
