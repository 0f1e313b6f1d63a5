------------------------- MODULE MCExtractionCascade -------------------------
(***************************************************************************)
(* Every outcome of the tiers, the directory and the consumer, with the    *)
(* thresholds of the settings.                                             *)
(***************************************************************************)
EXTENDS PaperJourney
=============================================================================
