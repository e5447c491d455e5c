--------------------------- MODULE MCProxyServer ---------------------------
(* Small instances of ProxyServer for TLC; their constants are model       *)
(* values.                                                                 *)
EXTENDS ProxyServer
=============================================================================
