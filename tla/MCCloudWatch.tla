---------------------------- MODULE MCCloudWatch ----------------------------
(* Two jobs, one of which every listing names twice. *)
EXTENDS CloudWatch

CONSTANTS build_, test

TestTwice == <<build_, test, test>>

=============================================================================
