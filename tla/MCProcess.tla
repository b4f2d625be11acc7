------------------------------ MODULE MCProcess ------------------------------
(* Process with pools of two entries and one signalling request.  The rates *)
(* are 30 and half a frame a second, one without a denominator and one      *)
(* without a numerator.                                                     *)
EXTENDS Process

SampleRates == {<<1, 30>>, <<2, 1>>, <<0, 30>>}
=============================================================================
