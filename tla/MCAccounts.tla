----------------------------- MODULE MCAccounts -----------------------------
(* Model values for checking Accounts with TLC. *)
EXTENDS Accounts
=============================================================================
