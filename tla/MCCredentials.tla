--------------------------- MODULE MCCredentials ---------------------------
(* Two processes and the remains of an old login. *)
EXTENDS Credentials

CONSTANTS p1, p2

=============================================================================
