---------------------------- MODULE MCCcidLink ----------------------------
(* CcidLink over both links, with a sequence number that wraps within a run. *)
EXTENDS CcidLink
=============================================================================
