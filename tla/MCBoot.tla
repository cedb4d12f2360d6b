------------------------------- MODULE MCBoot -------------------------------
(* Instances of Boot: runs of service.sh and app launches are model values. *)
EXTENDS Boot

CONSTANTS s, t, l, m

OneSystem == {s}
TwoSystems == {s, t}
TwoLaunches == {l, m}
EarlyOne == {s}
=============================================================================
