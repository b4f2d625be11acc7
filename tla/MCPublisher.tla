---------------------------- MODULE MCPublisher ----------------------------
(* Publisher with stamps that are missing, equal, less than a millisecond  *)
(* or several milliseconds apart, and frame times of one millisecond.      *)
EXTENDS Publisher

Stamps == {-1, 0, 300, 1000, 1400, 3000}

(* bound of the model: frames and fallbacks counted *)
FewUnits == frames <= 4 /\ fallbacks <= 5
=============================================================================
