----------------------------- MODULE MCJwksCache ------------------------------
(* The issuer adds key k2, then withdraws k1; s is never withdrawn.           *)
EXTENDS JwksCache

MCKids    == {"k1", "k2", "s"}
MCKeySets == <<{"k1", "s"}, {"k1", "k2", "s"}, {"k2", "s"}>>
==============================================================================
