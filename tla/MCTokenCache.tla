---------------------------- MODULE MCTokenCache ----------------------------
(* One coroutine that makes requests and one that refreshes the token.      *)
EXTENDS TokenCache

CONSTANTS c1, c2, t1, t2, t3
=============================================================================
