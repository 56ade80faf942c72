------------------------- MODULE MCCertificateListing -------------------------
(* Certificates for model checking their listing. *)
EXTENDS CertificateListing, TLC

\* Fingerprints are interchangeable.
Symmetry == Permutations(Fingerprints)
===============================================================================
