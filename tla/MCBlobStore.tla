---------------------------- MODULE MCBlobStore ----------------------------
(* Two keys are enough for one key's record to land where the index still has      *)
(* another's; three or four records for an overwrite, a loss and a reuse.         *)
EXTENDS BlobStore, TLC

CONSTANTS a, b

TwoKeys   == {a, b}
Symmetric == Permutations(Key)
=============================================================================
