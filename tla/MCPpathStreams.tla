--------------------------- MODULE MCPpathStreams ---------------------------
EXTENDS PpathStreams

\* Every topology of two or three clusters that the API server accepts, up to the
\* names of the clusters: the first link is from 1 to 2.
MCTopologies ==
  {t \in UNION {[1..n -> SCs \X SCs] : n \in 1..3} :
     t[1] = <<1, 2>> /\ \E p \in SCs : ValidTopology(t, p)}
=============================================================================
