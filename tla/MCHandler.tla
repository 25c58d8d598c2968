----------------------------- MODULE MCHandler -----------------------------
(* Handler for TLC, with the exit nodes of MCReverseRegistration. *)
EXTENDS Handler, MCReverseRegistration
=============================================================================
