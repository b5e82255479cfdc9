--------------------------- MODULE MCAvatarUploads ---------------------------
(* The instance of AvatarUploads for TLC.  Keys and requests are only ever   *)
(* compared for equality, and every action is quantified over all of them.  *)
EXTENDS AvatarUploads, TLC

Symmetry == Permutations(Keys) \cup Permutations(Requests)
=============================================================================
