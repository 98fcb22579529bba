-------------------------- MODULE MCRegisterAccess --------------------------
(* Two descriptors; all the values are different numbers.                  *)
EXTENDS RegisterAccess
=============================================================================
