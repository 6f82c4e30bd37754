--------------------------- MODULE MCAuthSessions ---------------------------
(* Small instances of AuthSessions for TLC.                                *)
EXTENDS AuthSessions, TLC

(* Handlers are interchangeable: no action and no property names one.      *)
HandlerSymmetry == Permutations(Requests)
=============================================================================
