---------------------------- MODULE MCAdcStream ----------------------------
(* AdcStream with its samples numbered from 0.                             *)
EXTENDS AdcStream

MCSample == 0 .. SAMPLES - 1
============================================================================
