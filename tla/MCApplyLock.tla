----------------------------- MODULE MCApplyLock -----------------------------
(* Instances of ApplyLock: scripts and the daemon are model values.         *)
EXTENDS ApplyLock

CONSTANTS a, b, d

OneShell == {a}
TwoShells == {a, b}
Daemon == {d}
=============================================================================
