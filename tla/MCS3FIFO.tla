------------------------------ MODULE MCS3FIFO ------------------------------
(* Small instances of S3FIFO for TLC. Keys are interchangeable.            *)
EXTENDS S3FIFO, TLC

KeySymmetry == Permutations(Keys)
=============================================================================
