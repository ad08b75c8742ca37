------------------------------ MODULE MCMailRelay ------------------------------
(* The instance of MailRelay. *)
EXTENDS MailRelay
=============================================================================
