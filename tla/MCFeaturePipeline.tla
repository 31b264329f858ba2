--------------------------- MODULE MCFeaturePipeline ---------------------------
\* Model-checking instance of FeaturePipeline: two frames of context to the left
\* and one to the right, so that the two are told apart, batches of three, and
\* a history of five, which neither batches nor files fill evenly.
EXTENDS FeaturePipeline
MCFileLengths == 0 .. 4
================================================================================
