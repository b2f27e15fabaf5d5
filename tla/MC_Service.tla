----------------------------- MODULE MC_Service -----------------------------
(* Service with every action request, and with two webhook requests. *)
EXTENDS Service
=============================================================================
