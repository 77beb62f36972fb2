------------------------------- MODULE MCSession -------------------------------
(***************************************************************************)
(* Session on a small instance: two API models and the one for signing up, *)
(* both kinds of credentials, keys that are reset up to twice.             *)
(***************************************************************************)
EXTENDS Session

CONSTANTS devices, users, signup

ThreeModels == {devices, users, signup}

=============================================================================
