---------------------------- MODULE MCWebClient ----------------------------
(* Two networks, of which one mines; lists of two rows. *)
EXTENDS WebClient

CONSTANTS main, test
=============================================================================
