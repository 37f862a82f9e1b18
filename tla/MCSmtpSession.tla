----------------------------- MODULE MCSmtpSession -----------------------------
(* A small instance of SmtpSession for TLC. *)
EXTENDS SmtpSession
===============================================================================
