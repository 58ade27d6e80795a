----------------------------- MODULE MC_UrlQueue -----------------------------
(***************************************************************************)
(* A small instance of UrlQueue: two urls of one site.                     *)
(***************************************************************************)
EXTENDS UrlQueue, TLC

CONSTANTS u1, u2, p1

OneSite == u1 :> p1 @@ u2 :> p1
=============================================================================
