---------------------------- MODULE MCExpiringMap ----------------------------
(* The run of ExpiringMap: two threads of the program and two loops, whose        *)
(* callbacks call the map.                                                      *)
EXTENDS ExpiringMap
=============================================================================
