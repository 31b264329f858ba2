---------------------------- MODULE MCOnlineSession ----------------------------
\* Model-checking instance of OnlineSession: a frame is two samples and a batch
\* four, half a buffer, so that speech goes through it in two steps and a
\* pause may be shorter than it or longer; the energies are below, between, at
\* and above the detector's thresholds; twelve batches are enough for speech, its
\* end, and more speech and its end after it.
EXTENDS OnlineSession
MCEnergies == 0 .. 3
================================================================================
