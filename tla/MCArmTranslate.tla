--------------------------- MODULE MCArmTranslate ---------------------------
(* ArmTranslate: every run of a few instructions from every home.          *)
EXTENDS ArmTranslate
=============================================================================
