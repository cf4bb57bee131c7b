---------------------------- MODULE MCArenaClient -----------------------------
(* A client, the server of its match and the wire between them.               *)
EXTENDS ArenaClient
=============================================================================
