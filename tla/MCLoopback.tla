---------------------------- MODULE MCLoopback ----------------------------
(* An instance of Loopback for TLC.                                        *)
EXTENDS Loopback

CONSTANT a1

DialSelf == <<a1>>
=============================================================================
