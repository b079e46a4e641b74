---------------------------- MODULE MCFailover ----------------------------
EXTENDS Failover
=============================================================================
