--------------------------- MODULE MCVideoLibrary ---------------------------
(* A small instance of VideoLibrary for TLC.                                *)
EXTENDS VideoLibrary, TLC

BothBackends == {"local", "s3"}

\* Ids are interchangeable, and every property is of safety.
IdSymmetry == Permutations(Videos) \cup Permutations(Jobs) \cup Permutations(Clients)
=============================================================================
