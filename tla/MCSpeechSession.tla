----------------------------- MODULE MCSpeechSession ------------------------------
(* Files of every length around the sizes of the reads.                    *)
EXTENDS SpeechSession
==================================================================================
