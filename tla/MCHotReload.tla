---------------------------- MODULE MCHotReload -----------------------------
(***************************************************************************)
(* The instances of HotReload TLC checks: three requests, three contents   *)
(* of config.yaml of which one is refused.                                 *)
(***************************************************************************)
EXTENDS HotReload

CONSTANTS first, second, broken

Contents == {first, second, broken}
Broken == {broken}
=============================================================================
