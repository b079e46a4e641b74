----------------------------- MODULE MCPvcRemap -----------------------------
EXTENDS PvcRemap
=============================================================================
