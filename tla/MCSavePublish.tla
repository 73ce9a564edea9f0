--------------------------- MODULE MCSavePublish ----------------------------
(* Three images are enough to tell the save before the job, the one being  *)
(* published and any other apart.                                          *)
EXTENDS SavePublish
CONSTANTS s1, s2, s3
MCSaves == {s1, s2, s3}
=============================================================================
