----------------------------- MODULE MCASHApi -----------------------------
(* ASHApi with numbers from the cfg files.  An address is only ever a key of
   the limiter's counts: the clients are symmetric.                        *)
EXTENDS ASHApi, TLC

ClientSymmetry == Permutations(Client)
=============================================================================
