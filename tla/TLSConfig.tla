------------------------------ MODULE TLSConfig -------------------------------
(***************************************************************************)
(* config/tls.go: the checks of TLSConfig.Validate and the making of a     *)
(* tls.Config. A function is modelled by the set of ways it may come back, *)
(* "ok", "error" or "panic" (a nil pointer), given what the files it reads *)
(* may hold. Absent stands for a nil pointer, "bogus" for a value no table *)
(* knows. Names in capitals are those only a lower-casing reader accepts.  *)
(***************************************************************************)
EXTENDS Naturals, Sequences

Absent == "absent"

NoTLS == [nil |-> TRUE]   \* a nil *TLSConfig

\* What a text of the configuration may be, as far as the code tells them apart
Versions == {Absent, "bogus", "v12", "v13"}
TableKeys == {Absent, "bogus", "known"}
Modes == {Absent, "bogus", "system", "System", "directory", "Directory", "file"}
Encodings == {Absent, "bogus", "pem", "PEM", "pkcs12"}

IdentityType == [pair : {Absent, "noPath", "set"}, p12 : {Absent, "noPath", "noPassword", "set"}]

PoolType == [nil : {FALSE}, mode : Modes, encoding : Encodings, path : BOOLEAN, password : BOOLEAN]

TLSRecord ==
    [nil : {FALSE}, skipVerify : BOOLEAN, selfSigned : BOOLEAN, min : Versions, max : Versions,
     ciphers : {"known", "bogus", "tooMany"}, clientAuth : TableKeys, renegotiation : TableKeys,
     identities : Seq(IdentityType), pool : {NoTLS} \cup PoolType]

TLSType == {NoTLS} \cup TLSRecord

\* A function that returns on the first error or panic of its steps
InOrder(steps) ==
    LET reached(i) == \A j \in 1..(i - 1) : "ok" \in steps[j] IN
    (UNION {steps[i] \ {"ok"} : i \in {k \in DOMAIN steps : reached(k)}})
    \cup (IF reached(Len(steps) + 1) THEN {"ok"} ELSE {})

MayFail == {"ok", "error"}   \* a file, a password, the system's pool

OkIf(test) == IF test THEN {"ok"} ELSE {"error"}

Lowered == [System |-> "system", Directory |-> "directory", PEM |-> "pem"]
ToLower(s) == IF s \in DOMAIN Lowered THEN Lowered[s] ELSE s

tlsVersions == [absent |-> 0, v12 |-> 12, v13 |-> 13]

TLSVersions(c) ==
    OkIf(c.min # "bogus" /\ c.max # "bogus" /\ tlsVersions[c.min] <= tlsVersions[c.max])

\* Known ciphers, a list with an unknown one, one longer than the table
TLSCiphers(c) == OkIf(c.ciphers = "known")

TLSClientAuth(c) == IF c.clientAuth = Absent THEN {"panic"} ELSE OkIf(c.clientAuth = "known")

TLSRenegotiationSupport(c) ==
    IF c.renegotiation = Absent THEN {"panic"} ELSE OkIf(c.renegotiation = "known")

\* An identity: its CertKeyPair and PKCS12Store are Absent, lack a field, or are "set";
\* a nil identity is one with neither.
IdentityCertificate(identity) ==
    CASE identity.pair = "set"     -> MayFail
      [] identity.pair = "noPath"  -> {"panic"}
      [] identity.pair = Absent /\ identity.p12 = "set"        -> MayFail
      [] identity.pair = Absent /\ identity.p12 = "noPath"     -> {"error", "panic"}
      [] identity.pair = Absent /\ identity.p12 = "noPassword" -> {"panic"}
      [] OTHER -> {"ok"}

OurIdentityCertificates(c) ==
    InOrder([i \in DOMAIN c.identities |-> IdentityCertificate(c.identities[i])])

findCertsFromPath(p) ==
    CASE ToLower(p.mode) = "directory" -> IF p.path THEN MayFail ELSE {"panic"}
      [] ToLower(p.mode) = "file"      -> IF p.path THEN {"ok"} ELSE {"panic"}
      [] OTHER -> {"error"}

buildPoolFromPEM(p) == InOrder(<<findCertsFromPath(p), MayFail>>)

buildPoolFromPKCS12(p) ==
    IF p.password THEN InOrder(<<MayFail, findCertsFromPath(p), MayFail>>) ELSE {"panic"}

buildPool(p) ==
    CASE p.encoding = Absent            -> {"panic"}
      [] ToLower(p.encoding) = "pem"    -> buildPoolFromPEM(p)
      [] ToLower(p.encoding) = "pkcs12" -> buildPoolFromPKCS12(p)
      [] OTHER -> {"error"}

\* The mode is compared as it is written.
GetTrustedCAs(c) ==
    CASE c.pool = NoTLS -> MayFail
      [] c.pool # NoTLS /\ c.pool.mode = Absent -> {"panic"}
      [] c.pool # NoTLS /\ c.pool.mode \notin {Absent, "system"} -> buildPool(c.pool)
      [] OTHER -> MayFail

makeSelfSignedTLSConfig(c) == InOrder(<<TLSVersions(c), OurIdentityCertificates(c)>>)

MakeTLSConfig(c) ==
    CASE c = NoTLS -> {"ok"}
      [] c # NoTLS /\ c.skipVerify -> {"ok"}
      [] c # NoTLS /\ ~c.skipVerify /\ c.selfSigned -> makeSelfSignedTLSConfig(c)
      [] OTHER -> InOrder(<<GetTrustedCAs(c), TLSVersions(c), TLSCiphers(c), TLSClientAuth(c),
                            OurIdentityCertificates(c), TLSRenegotiationSupport(c)>>)

-----------------------------------------------------------------------------
(* TLSConfig.Validate, and the configuration it leaves: the names of the   *)
(* pool's mode and encoding are replaced by their lower-case forms.        *)

ValidIdentity(identity) ==
    /\ (identity.pair = Absent) # (identity.p12 = Absent)
    /\ identity.pair \in {Absent, "set"}
    /\ identity.p12 \in {Absent, "set"}

ValidPool(p) ==
    /\ p.mode # Absent
    /\ ToLower(p.mode) # "system" =>
         /\ p.path
         /\ ToLower(p.encoding) \in {"pem", "pkcs12"}
         /\ ToLower(p.encoding) = "pkcs12" => p.password

\* Slip: only the names' lower-case forms are compared; the configuration keeps its own.
NormalisedNot(c) == c

\* What Validate has made of c when it accepts it
Normalised(c) ==
    CASE c = NoTLS -> c
      [] c # NoTLS /\ ToLower(c.pool.mode) = "system" -> [c EXCEPT !.pool.mode = "system"]
      [] OTHER -> [c EXCEPT !.pool.mode = ToLower(@), !.pool.encoding = ToLower(@)]

Valid(c) ==
    c # NoTLS =>
      /\ c.clientAuth = "known"
      /\ c.min \in {"v12", "v13"} /\ c.max \in {"v12", "v13"}
      /\ c.ciphers # "bogus"
      /\ c.renegotiation = "known"
      /\ c.identities # << >>
      /\ \A i \in DOMAIN c.identities : ValidIdentity(c.identities[i])
      /\ c.pool # NoTLS
      /\ ValidPool(c.pool)
=============================================================================
