---------------------------- MODULE MCAlertLoop ----------------------------
(***************************************************************************)
(* Instances of AlertLoop for TLC: two bands with a gap between them, as   *)
(* in config.example.yaml.  A price of 6 is tier 0 below an ATH of 14, and *)
(* tier 1 below an ATH of 20 or 24, so a rising ATH moves the tier.        *)
(***************************************************************************)
EXTENDS AlertLoop, TLC

CONSTANTS t1, t2, ws, backfill, retry

MCMinDrop == (0 :> 50) @@ (1 :> 62)
MCMaxDrop == (0 :> 60) @@ (1 :> 80)
=============================================================================
