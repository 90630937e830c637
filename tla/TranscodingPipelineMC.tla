------------------------- MODULE TranscodingPipelineMC -------------------------
(* TLC instances of TranscodingPipeline.                                    *)
EXTENDS TranscodingPipeline, TLC

\* Tracks, presets and worker goroutines are interchangeable.
Symmetry ==
    Permutations(Tracks) \union Permutations(Presets) \union Permutations(Workers)
================================================================================
