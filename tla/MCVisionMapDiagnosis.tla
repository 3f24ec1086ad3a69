------------------------ MODULE MCVisionMapDiagnosis ------------------------
(* A small instance of VisionMapDiagnosis for TLC: boxes from two pixels   *)
(* before the image to two pixels after it, in halves of a pixel.          *)
EXTENDS VisionMapDiagnosis, TLC

Symmetry == Permutations(Stems)

MCSizes == {1, 3}
MCOffsets == {-3, -1, 0, 1, 3, 7}
MCWidths == {0, 1, 2, 5, 9}
=============================================================================
