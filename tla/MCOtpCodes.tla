----------------------------- MODULE MCOtpCodes ------------------------------
(***************************************************************************)
(* A small instance of OtpCodes: two accounts, one with a window of two    *)
(* seconds and one with a window of four, and one change to an account.    *)
(***************************************************************************)
EXTENDS OtpCodes

MCPeriod == <<2, 4>>
=============================================================================
