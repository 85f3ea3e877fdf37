----------------------------- MODULE MCBarSynth -----------------------------
(* Bars of two and of four moments, as the 5 and 15 minutes of             *)
(* ingestor.env.                                                           *)
EXTENDS BarSynth
=============================================================================
