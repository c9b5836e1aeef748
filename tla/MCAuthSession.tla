--------------------------- MODULE MCAuthSession ---------------------------
(***************************************************************************)
(* Small instance of AuthSession: two tabs and two logins.                 *)
(***************************************************************************)
EXTENDS AuthSession

CONSTANTS t1, t2
=============================================================================
