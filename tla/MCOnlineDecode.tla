---------------------------- MODULE MCOnlineDecode ----------------------------
\* Model-checking instance of OnlineDecode: the decoder's batches are smaller
\* than those of features, so that a load falls at every place of a Decode; in
\* the program both have 27 rows, but the first load has fewer.
EXTENDS OnlineDecode
===============================================================================
