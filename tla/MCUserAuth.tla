----------------------------- MODULE MCUserAuth -----------------------------
(* Instances of UserAuth for TLC: one user with one-time passwords and one *)
(* with a stored secret.                                                   *)
EXTENDS UserAuth

CONSTANTS uOtp, uSecret

MCUsers == {uOtp, uSecret}
MCOtpUsers == {uOtp}
=============================================================================
