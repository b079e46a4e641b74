---------------------------- MODULE MCAdmission ----------------------------
EXTENDS Admission

\* Two VSCRs share the StorageClass 2; the VVR uses it too.  Classes that are
\* neither shared nor ever primary are left out.
MCUses == [a |-> {1, 2}, b |-> {2}, v |-> {2}]
MCGiven == [a |-> 1, b |-> 2, v |-> 2]
=============================================================================
