-------------------------- MODULE MCAdministration --------------------------
(* A small instance of Administration: the core asks about the delivery of  *)
(* packets, the zkgm proxy about its administration.  One selector stands   *)
(* for the three of the proxy.                                              *)
EXTENDS Administration

CONSTANT administer

Asked == [target \in Targets |->
             IF target = Core THEN {PacketRecv} ELSE {administer}]
=============================================================================
