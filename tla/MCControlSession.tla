-------------------------- MODULE MCControlSession --------------------------
(* The control session and its map sources are finite as they stand.        *)
EXTENDS MapStartup

=============================================================================
