-------------------------------- MODULE MCOtp ---------------------------------
(* A finite instance of Otp: senders are alike, and so are guessers. *)
EXTENDS Otp, TLC

CONSTANTS s1, s2, g1, g2

MCSymmetry == Permutations(Senders) \cup Permutations(Guessers)
===============================================================================
