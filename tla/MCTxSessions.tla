---------------------------- MODULE MCTxSessions ----------------------------
(***************************************************************************)
(* TLC instance: two requests of one subject, a call each, two ids, a      *)
(* quota of one session, and one re-registration of the alias.             *)
(***************************************************************************)
EXTENDS TxSessions, TLC

CONSTANTS a, b, ra, rb, tenant

MCReqOf == (a :> ra) @@ (b :> rb)
MCOwnerOf == (ra :> tenant) @@ (rb :> tenant)

=============================================================================
