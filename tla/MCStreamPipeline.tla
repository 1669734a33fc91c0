-------------------------- MODULE MCStreamPipeline --------------------------
(* Small instances of StreamPipeline for TLC. *)
EXTENDS StreamPipeline, TLC

(* Streams are alike, and so are threads; for safety only. *)
Alike == Permutations(Streams) \cup Permutations(Threads)
=============================================================================
