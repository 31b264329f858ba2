------------------------------ MODULE MCAudioInput ------------------------------
\* Model-checking instance of AudioInput: a buffer of 12 bytes, which becomes
\* one of 8 samples; requests for 6, 8 and 10 samples, less than it holds,
\* as many, and more; blocks that do not fill it evenly; a recording that no
\* request divides; and more numbers than samples are in use at a time.
EXTENDS AudioInput
MCBlocks == {2, 3}
MCRequests == {2, 3, 4}
=================================================================================
