------------------------------ MODULE MCRecorder ------------------------------
(* A small instance of Recorder for TLC.                                    *)
EXTENDS Recorder
=============================================================================
