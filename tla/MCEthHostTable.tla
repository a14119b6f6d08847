--------------------------- MODULE MCEthHostTable ---------------------------
(***************************************************************************)
(* EthHostTable for TLC.  Hosts differ only in their hashes, which are     *)
(* part of the state and initially range over all functions, so that       *)
(* permuting the hosts permutes the behaviours.                            *)
(***************************************************************************)
EXTENDS EthHostTable, TLC

Interchangeable == Permutations(Macs)
=============================================================================
