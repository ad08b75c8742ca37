------------------------------ MODULE MCXmppBridge ------------------------------
(* The instances of XmppBridge. *)
EXTENDS XmppBridge
=============================================================================
