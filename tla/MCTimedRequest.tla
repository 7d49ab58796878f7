--------------------------- MODULE MCTimedRequest -----------------------------
(* TimedRequest for TLC.                                                      *)
EXTENDS TimedRequest

\* Valid codes, the largest among them, and the first invalid ones on either side.
MCCodes == {99, 999, 1000}
==============================================================================
