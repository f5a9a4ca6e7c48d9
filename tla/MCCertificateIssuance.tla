----------------------- MODULE MCCertificateIssuance -----------------------
(***************************************************************************)
(* Instances of CertificateIssuance for TLC.                               *)
(***************************************************************************)
EXTENDS CertificateIssuance, TLC

CONSTANTS k1, k2, p1, p2
=============================================================================
