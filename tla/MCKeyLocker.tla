---------------------------- MODULE MCKeyLocker ----------------------------
(* KeyLocker for TLC.  Every object is in the map or with a goroutine, so   *)
(* one object per key and per goroutine is enough.                          *)
EXTENDS KeyLocker
=============================================================================
