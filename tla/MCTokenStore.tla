---------------------------- MODULE MCTokenStore ----------------------------
(***************************************************************************)
(* TokenStore with a static token, room for two issued tokens and a clock  *)
(* that outlives two lifetimes of a token.                                 *)
(***************************************************************************)
EXTENDS TokenStore

CONSTANT static

OneStaticToken == {static}

=============================================================================
