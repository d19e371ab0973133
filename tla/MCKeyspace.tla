----------------------------- MODULE MCKeyspace -----------------------------
(***************************************************************************)
(* The TTLs of the small instance: negative ones need a definition.        *)
(***************************************************************************)
EXTENDS Keyspace

\* a TTL that removes the timer, one that is due at once, and a later one
SomeTtls == {-1, 0, 1}

=============================================================================
