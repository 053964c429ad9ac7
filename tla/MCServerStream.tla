--------------------------- MODULE MCServerStream ---------------------------
(* ServerStream with two clients.                                            *)
EXTENDS ServerStream

CONSTANTS c1, c2
=============================================================================
