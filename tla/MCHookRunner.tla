---------------------------- MODULE MCHookRunner ----------------------------
(* HookRunner on a few requests, hooks and dashboard handlers.              *)
EXTENDS HookRunner
=============================================================================
