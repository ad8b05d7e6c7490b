---------------------------- MODULE MCInstaller ----------------------------
(* Two installers that overlap, one loader; a bundle and a license of each sort.  *)
EXTENDS Installer, TLC

CONSTANTS p1, p2, l1, good, bad

TwoPids   == {p1, p2}
Symmetric == Permutations(Pid)
=============================================================================
