------------------------- MODULE MCIndexingPipeline -------------------------
EXTENDS IndexingProperties, TLC

WorkerSymmetry == Permutations(Workers)
=============================================================================
