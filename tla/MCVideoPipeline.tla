-------------------------- MODULE MCVideoPipeline --------------------------
(***************************************************************************)
(* Instances of VideoPipeline for TLC.                                     *)
(***************************************************************************)
EXTENDS VideoPipeline, TLC

\* Requests and slots are interchangeable, and so are videos.
Symmetry == Permutations(Requests) \cup Permutations(Workers) \cup Permutations(Videos)

============================================================================
