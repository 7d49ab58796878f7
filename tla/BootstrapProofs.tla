---------------------------- MODULE BootstrapProofs ----------------------------
(***************************************************************************)
(* The properties of Bootstrap for every set of applications. NewServer is *)
(* one goroutine: what each proof needs is what the steps behind pc have   *)
(* established (Booting), and lemmas about the operators of TLSConfig and  *)
(* ConfigReader.                                                           *)
(***************************************************************************)
EXTENDS Bootstrap, FiniteSetTheorems, TLAPS

\* Validate accepts it and would leave it as it is.
Checked(tls) == Valid(tls) /\ tls = Normalised(tls)

DownType == [kind : {"http", "grpc", "temporal"}, tls : TLSType, timeout : Int]

BootType ==
    /\ app \in Apps
    /\ grpcTLS \in TLSType /\ downs \in Seq(DownType)
    /\ built \in Nat /\ rules \in Seq({AlwaysGrant, Names(app.issuers)})
    /\ pc \in {"load", "create", "validate", "logger", "dial", "clients", "rules", "options",
               "worker", "end"}
    /\ result = "none" <=> pc # "end"

\* Where the configuration has been loaded, and where it has been validated
Loaded == pc \notin {"load", "end"} \/ result \in {"server", "worker"}
Validated == pc \in {"logger", "dial", "clients", "rules", "options", "worker"}
             \/ result \in {"server", "worker"}

AsRead == conf = Values(Reader(app.file, app.env)) /\ Unmarshals(Reader(app.file, app.env))

\* What the steps so far have established
Booting ==
    /\ Loaded => AsRead
    /\ Validated => LogTagsHold
    /\ Validated /\ app.hooks.validate = "checks" =>
         Checked(grpcTLS) /\ \A i \in DOMAIN downs : Checked(downs[i].tls)
    /\ pc \in {"logger", "rules", "options"} \/ result = "server" => app.kind = "server"
    /\ pc \in {"dial", "worker"} => app.kind = "worker"

\* The rules resolved so far, and the goroutines that refresh their keys
Resolving ==
    /\ pc \in {"load", "create", "validate", "logger", "dial", "clients", "worker"} =>
         rules = << >> /\ fetchers = 0
    /\ pc \in {"rules", "options"} \/ result = "server" =>
         /\ \A i \in DOMAIN rules : rules[i] = IF app.disableRules THEN AlwaysGrant ELSE Names(app.issuers)
         /\ Len(rules) <= Len(app.rules)
         /\ rules = << >> => fetchers = 0
         /\ ~app.disableRules /\ rules # << >> =>
              /\ app.jwt /\ Refusals(app.issuers) = {}
              /\ fetchers = Len(rules) * Started(app.issuers)
    /\ pc = "options" \/ result = "server" => Len(rules) = Len(app.rules)

BootInv == BootType /\ Booting /\ Resolving /\ ValidatedNeverPanics
-----------------------------------------------------------------------------
(* The operators *)

\* A function whose steps do not panic does not (the chain of early returns in tls.go).
LEMMA InOrderSafe ==
    ASSUME NEW steps, \A i \in DOMAIN steps : "panic" \notin steps[i]
    PROVE  "panic" \notin InOrder(steps)
  BY DEF InOrder

\* strings.ToLower a second time changes nothing.
LEMMA LowerTwice == \A s : ToLower(ToLower(s)) = ToLower(s)
  BY DEF ToLower, Lowered

\* Validate leaves a TLSConfig that it would accept again, unchanged (tls.go:408-603).
LEMMA ValidateAgain ==
    ASSUME NEW c \in TLSType, Valid(c)
    PROVE  Normalised(c) \in TLSType /\ Checked(Normalised(c))
  <1>1. CASE c = NoTLS
    BY <1>1 DEF Normalised, Checked, Valid
  <1>2. CASE c # NoTLS
    <2> DEFINE With(p) == [c EXCEPT !.pool = p]
    <2>1. c \in TLSRecord /\ c.pool \in PoolType /\ ValidPool(c.pool)
      <3>1. c \in TLSRecord
        BY <1>2 DEF TLSType
      <3>2. c.pool \in {NoTLS} \cup PoolType
        BY <3>1 DEF TLSRecord
      <3>3. c.pool # NoTLS /\ ValidPool(c.pool)
        BY <1>2 DEF Valid
      <3> QED BY <3>1, <3>2, <3>3
    <2>2. ASSUME NEW p \in PoolType
          PROVE  /\ With(p) \in TLSRecord /\ With(p) # NoTLS /\ With(p).pool = p
                 /\ ValidPool(p) => Valid(With(p))
      <3>1. With(p) \in TLSRecord /\ With(p).pool = p /\ With(p).nil = FALSE /\ p.nil = FALSE
        <4>1. With(p) \in TLSRecord /\ With(p).pool = p
          BY Zenon, <2>1 DEF TLSRecord
        <4> HIDE DEF With
        <4> QED BY Zenon, <4>1 DEF PoolType, TLSRecord
      <3>2. With(p) # NoTLS /\ p # NoTLS
        BY <3>1 DEF NoTLS
      <3>3. /\ With(p).clientAuth = c.clientAuth /\ With(p).min = c.min /\ With(p).max = c.max
            /\ With(p).ciphers = c.ciphers /\ With(p).renegotiation = c.renegotiation
            /\ With(p).identities = c.identities
        BY <2>1
      <3> HIDE DEF With
      <3> QED BY <1>2, <3>1, <3>2, <3>3 DEF Valid
    <2>3. ASSUME NEW m \in Modes, NEW e \in Encodings
          PROVE  LET p == [c.pool EXCEPT !.mode = m, !.encoding = e] IN
                 /\ p \in PoolType /\ p.mode = m /\ p.encoding = e
                 /\ p.path = c.pool.path /\ p.password = c.pool.password
      BY Zenon, <2>1 DEF PoolType
    <2>4. /\ \A s \in Modes : ToLower(s) \in Modes /\ (ToLower(s) = Absent => s = Absent)
          /\ \A s \in Encodings : ToLower(s) \in Encodings
      BY DEF ToLower, Lowered, Absent, Modes, Encodings
    <2> DEFINE m == c.pool.mode
               e == c.pool.encoding
    <2>5. m \in Modes /\ e \in Encodings
      BY Zenon, <2>1 DEF PoolType
    <2>6. CASE ToLower(m) = "system"
      <3> DEFINE p == [c.pool EXCEPT !.mode = "system"]
      <3>1. p \in PoolType /\ p.mode = "system"
        <4>1. "system" \in Modes
          BY DEF Modes
        <4> QED BY Zenon, <2>1, <4>1 DEF PoolType
      <3>2. Normalised(c) = With(p)
        BY <1>2, <2>6 DEF Normalised
      <3>3. ToLower("system") = "system"
        BY <2>6, LowerTwice
      <3>4. ValidPool(p)
        BY <3>1, <3>3 DEF ValidPool, Absent
      <3>5. Normalised(With(p)) = [With(p) EXCEPT !.pool.mode = "system"]
        <4> HIDE DEF p, With
        <4> QED BY <2>2, <3>1, <3>3 DEF Normalised
      <3>6. [With(p) EXCEPT !.pool.mode = "system"] = With(p)
        BY Zenon, <2>1, <3>1 DEF PoolType
      <3> HIDE DEF p, With
      <3> QED BY <2>2, <3>1, <3>2, <3>4, <3>5, <3>6 DEF Checked, TLSType
    <2>7. CASE ToLower(m) # "system"
      <3> DEFINE p == [c.pool EXCEPT !.mode = ToLower(m), !.encoding = ToLower(e)]
      <3>1. /\ p \in PoolType /\ p.mode = ToLower(m) /\ p.encoding = ToLower(e)
            /\ p.path = c.pool.path /\ p.password = c.pool.password
        <4>1. ToLower(m) \in Modes /\ ToLower(e) \in Encodings
          BY <2>4, <2>5
        <4> HIDE DEF m, e
        <4> QED BY Zenon, <2>3, <4>1
      <3>2. Normalised(c) = With(p)
        BY Zenon, <1>2, <2>7 DEF Normalised
      <3>3. ToLower(p.mode) = p.mode /\ ToLower(p.encoding) = p.encoding
        BY <3>1, LowerTwice
      <3>4. ValidPool(p)
        BY <2>1, <2>4, <2>5, <2>7, <3>1, <3>3 DEF ValidPool
      <3>5. Normalised(With(p)) = [With(p) EXCEPT !.pool.mode = ToLower(@), !.pool.encoding = ToLower(@)]
        <4> HIDE DEF p, With
        <4> QED BY <2>2, <2>7, <3>1, <3>3 DEF Normalised
      <3>6. [With(p) EXCEPT !.pool.mode = ToLower(@), !.pool.encoding = ToLower(@)] = With(p)
        <4>1. With(p) \in TLSRecord /\ With(p).pool = p /\ p \in PoolType
          BY <2>2, <3>1
        <4> HIDE DEF p, With
        <4>2. [p EXCEPT !.mode = ToLower(@)] = p /\ [p EXCEPT !.encoding = ToLower(@)] = p
          BY <3>3, <4>1 DEF PoolType
        <4>3. [With(p) EXCEPT !.pool = p] = With(p)
          BY <4>1 DEF TLSRecord
        <4>4. [With(p) EXCEPT !.pool.mode = ToLower(@)] = With(p)
          BY <4>1, <4>2, <4>3
        <4>5. [With(p) EXCEPT !.pool.encoding = ToLower(@)] = With(p)
          BY <4>1, <4>2, <4>3
        <4> QED BY Zenon, <4>4, <4>5
      <3> HIDE DEF p, With
      <3> QED BY <2>2, <3>1, <3>2, <3>4, <3>5, <3>6 DEF Checked, TLSType
    <2> QED BY <2>6, <2>7
  <1> QED BY <1>1, <1>2

\* MakeTLSConfig has no nil pointer to meet in a TLSConfig that Validate has accepted and
\* normalised (tls.go:130-406).
LEMMA CheckedMakes ==
    ASSUME NEW c \in TLSType, Checked(c)
    PROVE  "panic" \notin MakeTLSConfig(c)
  <1>1. CASE c = NoTLS
    BY <1>1 DEF MakeTLSConfig
  <1>2. CASE c # NoTLS
    <2>1. c \in TLSRecord /\ c.pool \in PoolType /\ ValidPool(c.pool) /\ c.pool # NoTLS
      <3>1. c \in TLSRecord
        BY <1>2 DEF TLSType
      <3>2. c.pool \in {NoTLS} \cup PoolType
        BY <3>1 DEF TLSRecord
      <3>3. c.pool # NoTLS /\ ValidPool(c.pool)
        BY <1>2 DEF Checked, Valid
      <3> QED BY SMTT(30), <3>1, <3>2, <3>3
    <2>2. "panic" \notin OurIdentityCertificates(c)
      <3>1. \A i \in DOMAIN c.identities : "panic" \notin IdentityCertificate(c.identities[i])
        BY <1>2 DEF Checked, Valid, ValidIdentity, IdentityCertificate, MayFail, Absent
      <3> QED BY <3>1, InOrderSafe DEF OurIdentityCertificates
    <2>3. "panic" \notin GetTrustedCAs(c)
      <3>1. ToLower(c.pool.mode) = "system" => c.pool.mode = "system"
        <4>1. ASSUME ToLower(c.pool.mode) = "system" PROVE c.pool.mode = "system"
          <5>1. c = [c EXCEPT !.pool.mode = "system"]
            BY <1>2, <4>1 DEF Checked, Normalised
          <5>2. [c EXCEPT !.pool.mode = "system"].pool.mode = "system"
            BY <2>1 DEF TLSRecord, PoolType
          <5> QED BY Zenon, <5>1, <5>2
        <4> QED BY <4>1
      <3>2. c.pool.mode # "system" => "panic" \notin buildPool(c.pool)
        <4>1. ASSUME c.pool.mode # "system" PROVE "panic" \notin buildPool(c.pool)
          <5>1. /\ c.pool.path /\ c.pool.encoding # Absent
                /\ ToLower(c.pool.encoding) = "pkcs12" => c.pool.password
            BY <2>1, <3>1, <4>1 DEF ValidPool, ToLower, Lowered, Absent
          <5>2. "panic" \notin findCertsFromPath(c.pool)
            BY <5>1 DEF findCertsFromPath, MayFail
          <5>3. "panic" \notin buildPoolFromPEM(c.pool)
            <6>1. \A i \in DOMAIN <<findCertsFromPath(c.pool), MayFail>> :
                     "panic" \notin <<findCertsFromPath(c.pool), MayFail>>[i]
              BY <5>2 DEF MayFail
            <6> QED BY <6>1, InOrderSafe DEF buildPoolFromPEM
          <5>4. c.pool.password => "panic" \notin buildPoolFromPKCS12(c.pool)
            <6>1. \A i \in DOMAIN <<MayFail, findCertsFromPath(c.pool), MayFail>> :
                     "panic" \notin <<MayFail, findCertsFromPath(c.pool), MayFail>>[i]
              BY <5>2 DEF MayFail
            <6> QED BY <6>1, InOrderSafe DEF buildPoolFromPKCS12
          <5> QED BY <5>1, <5>3, <5>4 DEF buildPool
        <4> QED BY <4>1
      <3>3. c.pool.mode # Absent
        BY <2>1 DEF ValidPool
      <3> QED BY <2>1, <3>2, <3>3 DEF GetTrustedCAs, MayFail
    <2>4. /\ "panic" \notin TLSVersions(c) /\ "panic" \notin TLSCiphers(c)
          /\ "panic" \notin TLSClientAuth(c) /\ "panic" \notin TLSRenegotiationSupport(c)
      BY <1>2 DEF Checked, Valid, TLSVersions, TLSCiphers, TLSClientAuth, TLSRenegotiationSupport,
                  OkIf, Absent
    <2>5. "panic" \notin makeSelfSignedTLSConfig(c)
      <3>1. \A i \in DOMAIN <<TLSVersions(c), OurIdentityCertificates(c)>> :
               "panic" \notin <<TLSVersions(c), OurIdentityCertificates(c)>>[i]
        BY <2>2, <2>4
      <3> QED BY <3>1, InOrderSafe DEF makeSelfSignedTLSConfig
    <2> DEFINE steps == <<GetTrustedCAs(c), TLSVersions(c), TLSCiphers(c), TLSClientAuth(c),
                          OurIdentityCertificates(c), TLSRenegotiationSupport(c)>>
    <2>6. "panic" \notin InOrder(steps)
      <3>1. \A i \in DOMAIN steps : "panic" \notin steps[i]
        BY <2>2, <2>3, <2>4
      <3> HIDE DEF steps
      <3> QED BY <3>1, InOrderSafe
    <2> QED BY <1>2, <2>5, <2>6 DEF MakeTLSConfig
  <1> QED BY <1>1, <1>2

\* A text that reads as a level becomes its number, in any spelling, and no text is left
\* that reads as one (configreaderimpl.go:119-150).
LEMMA LevelTexts ==
    /\ \A t : ReadsAsLevel(t) => Decoded(t) \in {"2", "4", "5"}
    /\ \A t : ~ReadsAsLevel(Decoded(t))
    /\ ~ReadsAsLevel(NoText)
    /\ \A t \in {"4", "text"} : Decoded(t) = t
  <1>1. DOMAIN LevelWords = {"panic", "fatal", "error", "warn", "info", "debug", "trace"}
        /\ \A w \in DOMAIN LevelWords : LevelWords[w] \in {"2", "4", "5"}
    BY DEF LevelWords
  <1>2. \A t : t \notin {"INFO", "Debug"} => LowerCase(t) = t
    BY DEF LowerCase, Spellings
  <1>3. \A t \in {"2", "4", "5", "text", NoText} : ~ReadsAsLevel(t)
    BY <1>1, <1>2 DEF ReadsAsLevel, NoText
  <1>4. \A t : IF ReadsAsLevel(t) THEN Decoded(t) \in {"2", "4", "5"} ELSE Decoded(t) = t
    BY <1>1 DEF ReadsAsLevel, Decoded
  <1> QED BY <1>3, <1>4

\* What LoadCustomConfig ends up with: the file, the defaults, and the environment exactly
\* when the file gives a prefix (serve.go:381-405).
LEMMA ReaderIs ==
    ASSUME NEW file, NEW env
    PROVE  LET r == Reader(file, env)
               prefixed == EnvPrefix \in DOMAIN file /\ file[EnvPrefix] # NoText
           IN  /\ r.file = file /\ r.defaults = SetDefaults
               /\ r.strict /\ r.ignored = {EnvPrefix}
               /\ r.env = IF prefixed THEN env ELSE NoSource
  <1> DEFINE Fields == {"file", "defaults", "env", "strict", "ignored"}
             b1 == WithConfigFile(NewConfigReaderBuilder, file)
             b2 == WithDefaults(b1, SetDefaults)
             b3 == WithStrictMode(b2, {EnvPrefix})
             b4 == Build(b3, file)
             b5 == AttachEnvPrefix(b3, env)
             b6 == Build(b5, file)
             Is(b) == /\ b.defaults = SetDefaults /\ b.strict /\ b.ignored = {EnvPrefix}
                      /\ DOMAIN b = Fields
  <1>1. DOMAIN b1 = Fields /\ b1.env = NoSource
    BY DEF WithConfigFile, NewConfigReaderBuilder
  <1>2. DOMAIN b2 = Fields /\ b2.env = NoSource /\ b2.defaults = SetDefaults
    <2> HIDE DEF b1
    <2> QED BY <1>1 DEF WithDefaults
  <1>3. Is(b3) /\ b3.env = NoSource
    <2> HIDE DEF b2
    <2> QED BY <1>2 DEF WithStrictMode
  <1>4. \A b : Is(b) => LET d == Build(b, file) IN Is(d) /\ d.file = file /\ d.env = b.env
    BY DEF Build
  <1>5. Is(b5) /\ b5.env = env
    <2> HIDE DEF b3
    <2> QED BY <1>3 DEF AttachEnvPrefix
  <1> DEFINE prefix == Lookup(b4, EnvPrefix)
  <1>6. Reader(file, env) = Build(IF prefix # NoText THEN b5 ELSE b3, file)
    BY DEF Reader
  <1> HIDE DEF b3, b5
  <1>7. prefix = IF EnvPrefix \in DOMAIN file THEN file[EnvPrefix] ELSE NoText
    <2>1. EnvPrefix \notin DOMAIN SetDefaults /\ EnvPrefix \notin DOMAIN NoSource
      BY DEF SetDefaults, NoSource, EnvPrefix
    <2>2. b4.file = file /\ b4.defaults = SetDefaults /\ b4.env = NoSource
      BY <1>3, <1>4
    <2> HIDE DEF b4
    <2> QED BY <2>1, <2>2 DEF Lookup
  <1>8. CASE prefix # NoText
    <2>1. Reader(file, env) = b6
      BY <1>6, <1>8
    <2> QED BY <1>4, <1>5, <1>7, <1>8, <2>1
  <1>9. CASE prefix = NoText
    <2>1. Reader(file, env) = b4
      BY <1>6, <1>9
    <2> QED BY <1>3, <1>4, <1>7, <1>9, <2>1
  <1> QED BY <1>8, <1>9

\* Without a refused issuer AuthFromConfig counts its refreshing goroutines over all of them.
LEMMA StartedNat ==
    ASSUME NEW a \in Apps, Refusals(a.issuers) = {}
    PROVE  Started(a.issuers) \in Nat
  <1> DEFINE S == {i \in DOMAIN a.issuers : a.issuers[i].refresh > 0}
  <1>1. Len(a.issuers) \in Nat /\ DOMAIN a.issuers = 1..Len(a.issuers)
    BY AppsAssumption DEF Configured
  <1>2. IsFiniteSet(DOMAIN a.issuers)
    BY <1>1, FS_Interval
  <1>3. Cardinality(S) \in Nat
    BY <1>2, FS_Subset, FS_CardinalityType
  <1> QED BY <1>3 DEF Started
\* How a call may come back
Ends == {"ok", "error", "panic", "exit"}

\* A function comes back in no way that none of its steps does.
LEMMA InOrderEnds ==
    ASSUME NEW steps, \A i \in DOMAIN steps : steps[i] \subseteq Ends
    PROVE  InOrder(steps) \subseteq Ends
  BY DEF InOrder, Ends

\* MakeTLSConfig succeeds, fails or panics (tls.go:130-200).
LEMMA MakeEnds == \A c : MakeTLSConfig(c) \subseteq Ends
  <1> SUFFICES ASSUME NEW c PROVE MakeTLSConfig(c) \subseteq Ends
    OBVIOUS
  <1>1. /\ TLSVersions(c) \subseteq Ends /\ TLSCiphers(c) \subseteq Ends
        /\ TLSClientAuth(c) \subseteq Ends /\ TLSRenegotiationSupport(c) \subseteq Ends
    BY DEF TLSVersions, TLSCiphers, TLSClientAuth, TLSRenegotiationSupport, OkIf, Ends
  <1>2. OurIdentityCertificates(c) \subseteq Ends
    <2> DEFINE steps == [i \in DOMAIN c.identities |-> IdentityCertificate(c.identities[i])]
    <2>1. \A i \in DOMAIN steps : steps[i] \subseteq Ends
      BY Zenon DEF IdentityCertificate, MayFail, Ends
    <2> HIDE DEF steps
    <2>2. InOrder(steps) \subseteq Ends
      BY <2>1, InOrderEnds
    <2> QED BY <2>2 DEF OurIdentityCertificates, steps
  <1>3. GetTrustedCAs(c) \subseteq Ends
    <2>1. findCertsFromPath(c.pool) \subseteq Ends /\ MayFail \subseteq Ends
      BY DEF findCertsFromPath, MayFail, Ends
    <2>2. buildPoolFromPEM(c.pool) \subseteq Ends
      <3> DEFINE steps == <<findCertsFromPath(c.pool), MayFail>>
      <3>1. \A i \in DOMAIN steps : steps[i] \subseteq Ends
        BY <2>1
      <3> HIDE DEF steps
      <3>2. InOrder(steps) \subseteq Ends
        BY <3>1, InOrderEnds
      <3> QED BY <3>2 DEF buildPoolFromPEM, steps
    <2>3. buildPoolFromPKCS12(c.pool) \subseteq Ends
      <3> DEFINE steps == <<MayFail, findCertsFromPath(c.pool), MayFail>>
      <3>1. \A i \in DOMAIN steps : steps[i] \subseteq Ends
        BY <2>1
      <3> HIDE DEF steps
      <3>2. InOrder(steps) \subseteq Ends
        BY <3>1, InOrderEnds
      <3> QED BY <3>2 DEF buildPoolFromPKCS12, steps, Ends
    <2>4. buildPool(c.pool) \subseteq Ends
      BY <2>2, <2>3 DEF buildPool, Ends
    <2> QED BY <2>1, <2>4 DEF GetTrustedCAs, Ends
  <1>4. makeSelfSignedTLSConfig(c) \subseteq Ends
    <2> DEFINE steps == <<TLSVersions(c), OurIdentityCertificates(c)>>
    <2>1. \A i \in DOMAIN steps : steps[i] \subseteq Ends
      BY <1>1, <1>2
    <2> HIDE DEF steps
    <2>2. InOrder(steps) \subseteq Ends
      BY <2>1, InOrderEnds
    <2> QED BY <2>2 DEF makeSelfSignedTLSConfig, steps
  <1> DEFINE steps == <<GetTrustedCAs(c), TLSVersions(c), TLSCiphers(c), TLSClientAuth(c),
                        OurIdentityCertificates(c), TLSRenegotiationSupport(c)>>
  <1>5. InOrder(steps) \subseteq Ends
    <2>1. \A i \in DOMAIN steps : steps[i] \subseteq Ends
      BY <1>1, <1>2, <1>3
    <2> HIDE DEF steps
    <2> QED BY <2>1, InOrderEnds
  <1> QED BY <1>4, <1>5 DEF MakeTLSConfig, Ends

\* A gRPC server or client panics over its options only when MakeTLSConfig does
\* (grpcserver.go, grpcclient.go).
LEMMA OptionsEnds ==
    \A hook, tls : LET out == ResolveGrpcOptions(hook, tls) IN
        out \subseteq Ends /\ ("panic" \in out => "panic" \in MakeTLSConfig(tls))
  BY MakeEnds DEF ResolveGrpcOptions, MayFail, Ends

\* The same for a downstream client, but for a worker without Hooks (downstreambuilder.go).
LEMMA ClientEnds ==
    ASSUME NEW d, d.kind \in {"http", "grpc", "temporal"}
    PROVE  /\ BuildDownstream(d) \subseteq Ends
           /\ "panic" \in BuildDownstream(d) =>
                "panic" \in MakeTLSConfig(d.tls) \/ (app.kind = "worker" /\ ~app.hooks.given)
  <1>1. /\ BuildDownstreamHTTPClient(d) \subseteq Ends
        /\ "panic" \in BuildDownstreamHTTPClient(d) => "panic" \in MakeTLSConfig(d.tls)
    BY MakeEnds DEF BuildDownstreamHTTPClient, MayFail, Ends
  <1> DEFINE steps == <<ResolveGrpcOptions(app.hooks.dial, d.tls), MayFail>>
  <1>2. \A i \in DOMAIN steps : steps[i] \subseteq Ends
    BY OptionsEnds DEF MayFail, Ends
  <1>3. "panic" \notin MakeTLSConfig(d.tls) => \A i \in DOMAIN steps : "panic" \notin steps[i]
    BY OptionsEnds DEF MayFail
  <1> HIDE DEF steps
  <1>4. InOrder(steps) \subseteq Ends /\ ("panic" \in InOrder(steps) => "panic" \in MakeTLSConfig(d.tls))
    BY <1>2, <1>3, InOrderEnds, InOrderSafe
  <1>5. BuildDownstreamGRPCClient(d)
          = IF app.kind = "worker" /\ ~app.hooks.given THEN {"panic"} ELSE InOrder(steps)
    BY DEF BuildDownstreamGRPCClient, steps
  <1>6. BuildDownstreamTemporalClient = IF app.kind = "worker" /\ ~app.hooks.given THEN {"panic"} ELSE MayFail
    BY DEF BuildDownstreamTemporalClient
  <1>7. CASE d.kind = "http"
    BY <1>1, <1>7 DEF BuildDownstream
  <1>8. CASE d.kind = "grpc"
    BY <1>4, <1>5, <1>8 DEF BuildDownstream, Ends
  <1>9. CASE d.kind = "temporal"
    BY <1>6, <1>9 DEF BuildDownstream, Ends, MayFail
  <1> QED BY <1>7, <1>8, <1>9

\* A call goes on to the next step or ends the boot.
LEMMA CallSplit ==
    \A outcomes \in SUBSET Ends : \A to :
        Call(outcomes, to) /\ result = "none" =>
            \/ "ok" \in outcomes /\ pc' = to /\ result' = "none"
            \/ /\ pc' = "end" /\ result' \in outcomes
               /\ result' \in {"error", "panic", "exit"}
  BY DEF Call, Go, Return, Ends
-----------------------------------------------------------------------------
(* The steps of a boot *)

\* Where a step may lead: on, or to an end; it never changes the application.
Moves ==
    /\ app' = app /\ pc # "end" /\ result = "none"
    /\ \/ pc' = "end" /\ result' \in {"error", "panic", "exit"}
       \/ pc' = "end" /\ <<pc, result'>> \in {<<"options", "server">>, <<"worker", "worker">>}
       \/ /\ result' = "none"
          /\ \/ <<pc, pc'>> \in {<<"load", "create">>, <<"create", "validate">>,
                                 <<"logger", "clients">>, <<"dial", "clients">>,
                                 <<"clients", "clients">>, <<"rules", "rules">>,
                                 <<"rules", "options">>}
             \/ app.kind = "server" /\ <<pc, pc'>> \in {<<"validate", "logger">>, <<"clients", "rules">>}
             \/ app.kind = "worker" /\ <<pc, pc'>> \in {<<"validate", "dial">>, <<"clients", "worker">>}

\* The downstream BuildClient is about is one of those configured.
LEMMA NextDown ==
    ASSUME BootType, BuildClient
    PROVE  /\ built + 1 \in DOMAIN downs /\ downs[built + 1] \in DownType
           /\ downs[built + 1].kind \in {"http", "grpc", "temporal"}
  <1>1. built \in Nat /\ Len(downs) \in Nat /\ DOMAIN downs = 1..Len(downs) /\ downs \in Seq(DownType)
    BY DEF BootType
  <1>2. built + 1 \in DOMAIN downs
    BY <1>1 DEF BuildClient
  <1>3. downs[built + 1] \in DownType
    BY <1>1, <1>2
  <1> QED BY <1>2, <1>3 DEF DownType

\* Every step of the boot makes one of the moves (serve.go:25-178 and 206-330).
LEMMA NextMoves ==
    ASSUME BootType, Next
    PROVE  Moves
  <1>1. app' = app /\ pc # "end"
    BY DEF Next, LoadConfig, CreateService, validateConfig, SetLogger, BuildClient, ClientsBuilt,
           ResolveRule, RulesResolved, ServerOptions, DialTemporal, BuildWorker
  <1>2. result = "none" /\ app.kind \in {"server", "worker"}
    BY <1>1, AppsAssumption DEF Configured, BootType
  <1>3. MayFail \in SUBSET Ends /\ {"ok"} \in SUBSET Ends /\ {"panic"} \in SUBSET Ends
        /\ \A t : OkIf(t) \in SUBSET Ends
    BY DEF MayFail, OkIf, Ends
  <1>4. CASE LoadConfig
    <2>1. Loads(Reader(app.file, app.env)) \in SUBSET Ends
      BY DEF Loads, MayFail, Ends
    <2>2. Call(Loads(Reader(app.file, app.env)), "create") /\ pc = "load"
      BY <1>4 DEF LoadConfig
    <2> QED BY <1>1, <1>2, <2>1, <2>2, CallSplit DEF Moves
  <1>5. CASE CreateService
    BY <1>1, <1>2, <1>3, <1>5, CallSplit DEF CreateService, Moves
  <1>6. CASE validateConfig
    <2> DEFINE to == IF app.kind = "server" THEN "logger" ELSE "dial"
    <2>1. Call(OkIf(HookAccepts /\ TagsHold), to) /\ pc = "validate"
      BY <1>6 DEF validateConfig
    <2> HIDE DEF to
    <2>2. (pc' = to /\ result' = "none") \/ (pc' = "end" /\ result' \in {"error", "panic", "exit"})
      BY <1>2, <1>3, <2>1, CallSplit
    <2> QED BY <1>1, <1>2, <2>1, <2>2 DEF Moves, to
  <1>7. CASE SetLogger
    BY <1>1, <1>2, <1>7 DEF SetLogger, Go, Moves
  <1>8. CASE BuildClient
    <2> DEFINE d == downs[built + 1]
               out == BuildDownstream(d)
    <2>1. out \in SUBSET Ends
      BY NextDown, ClientEnds, <1>8 DEF DownType
    <2>2. Call(out, "clients") /\ pc = "clients"
      BY <1>8 DEF BuildClient
    <2> HIDE DEF out
    <2> QED BY <1>1, <1>2, <2>1, <2>2, CallSplit DEF Moves
  <1>9. CASE ClientsBuilt
    <2>1. CASE app.kind = "server"
      <3> DEFINE out == IF app.db THEN MayFail ELSE {"ok"}
      <3>1. out \in SUBSET Ends
        BY <1>3
      <3>2. Call(out, "rules") /\ pc = "clients"
        BY <1>9, <2>1 DEF ClientsBuilt
      <3> HIDE DEF out
      <3> QED BY <1>1, <1>2, <2>1, <3>1, <3>2, CallSplit DEF Moves
    <2>2. CASE app.kind = "worker"
      BY <1>1, <1>2, <1>9, <2>2 DEF ClientsBuilt, Go, Moves
    <2> QED BY <1>2, <2>1, <2>2
  <1>10. CASE ResolveRule
    BY <1>1, <1>2, <1>10 DEF ResolveRule, Go, Return, Moves
  <1>11. CASE RulesResolved
    BY <1>1, <1>2, <1>11 DEF RulesResolved, Go, Moves
  <1>12. CASE ServerOptions
    BY <1>1, <1>2, <1>12, OptionsEnds DEF ServerOptions, Return, Ends, Moves
  <1>13. CASE DialTemporal
    <2> DEFINE out == IF app.hooks.given THEN MayFail ELSE {"panic"}
    <2>1. out \in SUBSET Ends
      BY <1>3
    <2>2. Call(out, "clients") /\ pc = "dial"
      BY <1>13 DEF DialTemporal
    <2> HIDE DEF out
    <2> QED BY <1>1, <1>2, <2>1, <2>2, CallSplit DEF Moves
  <1>14. CASE BuildWorker
    BY <1>1, <1>2, <1>14 DEF BuildWorker, MayFail, Return, Moves
  <1> QED BY SMTT(30), <1>4, <1>5, <1>6, <1>7, <1>8, <1>9, <1>10, <1>11, <1>12, <1>13, <1>14 DEF Next

\* The types hold at the call of NewServer.
LEMMA InitBoot == Init => BootInv
  <1> SUFFICES ASSUME Init PROVE BootInv
    OBVIOUS
  <1>1. BootType
    <2>1. app \in Apps /\ grpcTLS \in TLSType /\ downs \in Seq(DownType)
      BY Zenon, AppsAssumption DEF Configured, Init, DownType
    <2>2. \A S : << >> \in Seq(S)
      OBVIOUS
    <2> QED BY <2>1, <2>2 DEF Init, BootType
  <1> QED BY <1>1 DEF Init, BootInv, Booting, Loaded, Validated, Resolving, ValidatedNeverPanics

\* A step keeps the types: Validate rewrites a TLSConfig to one (tls.go:408-603).
LEMMA NextType ==
    ASSUME BootType, Next
    PROVE  BootType'
  <1>1. Moves
    BY NextMoves
  <1>2. /\ app' \in Apps /\ (result' = "none" <=> pc' # "end")
        /\ pc' \in {"load", "create", "validate", "logger", "dial", "clients", "rules", "options",
                    "worker", "end"}
    BY <1>1 DEF Moves, BootType
  <1>3. grpcTLS' \in TLSType /\ downs' \in Seq(DownType)
    <2>1. CASE UNCHANGED <<downs, grpcTLS>>
      BY <2>1 DEF BootType
    <2>2. CASE /\ HookAccepts /\ app.hooks.validate = "checks"
               /\ downs' = [i \in DOMAIN downs |-> [downs[i] EXCEPT !.tls = Normalised(@)]]
               /\ grpcTLS' = Normalised(grpcTLS)
      <3>1. Valid(grpcTLS) /\ \A i \in DOMAIN downs : Valid(downs[i].tls)
        BY <2>2 DEF HookAccepts
      <3>2. grpcTLS' \in TLSType
        BY <2>2, <3>1, ValidateAgain DEF BootType
      <3>3. \A i \in DOMAIN downs : [downs[i] EXCEPT !.tls = Normalised(@)] \in DownType
        <4> SUFFICES ASSUME NEW i \in DOMAIN downs
                     PROVE  [downs[i] EXCEPT !.tls = Normalised(@)] \in DownType
          OBVIOUS
        <4>1. downs[i] \in DownType
          BY DEF BootType
        <4>2. downs[i].tls \in TLSType
          BY <4>1 DEF DownType
        <4>3. Normalised(downs[i].tls) \in TLSType
          BY <3>1, <4>2, ValidateAgain
        <4> QED BY <4>1, <4>3 DEF DownType
      <3>4. DOMAIN downs = 1..Len(downs) /\ Len(downs) \in Nat
        BY DEF BootType
      <3> QED BY <2>2, <3>2, <3>3, <3>4
    <2> QED BY <2>1, <2>2 DEF Next, LoadConfig, CreateService, validateConfig, SetLogger, BuildClient,
               ClientsBuilt, ResolveRule, RulesResolved, ServerOptions, DialTemporal, BuildWorker
  <1>4. built' \in Nat
    BY DEF BootType, Next, LoadConfig, CreateService, validateConfig, SetLogger, BuildClient,
           ClientsBuilt, ResolveRule, RulesResolved, ServerOptions, DialTemporal, BuildWorker
  <1>5. rules' \in Seq({AlwaysGrant, Names(app.issuers)})
    <2> DEFINE S == {AlwaysGrant, Names(app.issuers)}
    <2>1. AlwaysGrant \in S /\ Names(app.issuers) \in S /\ rules \in Seq(S)
      BY DEF BootType
    <2>2. \/ rules' = rules \/ rules' = Append(rules, AlwaysGrant)
          \/ rules' = Append(rules, Names(app.issuers))
      BY DEF Next, LoadConfig, CreateService, validateConfig, SetLogger, BuildClient,
             ClientsBuilt, ResolveRule, RulesResolved, ServerOptions, DialTemporal, BuildWorker
    <2> HIDE DEF S
    <2> QED BY <2>1, <2>2 DEF S
  <1> QED BY <1>1, <1>2, <1>3, <1>4, <1>5 DEF BootType, Moves
\* What a step has established stays: the configuration as it was read, every TLSConfig
\* checked, whether a server or a worker is built (serve.go:25-178 and 206-330).
LEMMA NextBooting ==
    ASSUME BootType, Booting, Next
    PROVE  Booting'
  <1>1. Moves
    BY NextMoves
  <1>2. app.kind \in {"server", "worker"} /\ app \in Apps
    BY AppsAssumption DEF Configured, BootType
  <1> DEFINE Rest == \/ CreateService \/ BuildClient \/ ClientsBuilt \/ ResolveRule
                     \/ RulesResolved \/ ServerOptions \/ DialTemporal \/ BuildWorker
  <1>3. LoadConfig \/ validateConfig \/ SetLogger \/ Rest
    BY DEF Next
  <1>4. Loaded' => AsRead'
    <2>1. CASE LoadConfig
      <3>1. Loaded' => result' = "none"
        BY <1>1, <2>1 DEF LoadConfig, Loaded, Moves
      <3>2. result' = "none" => conf' = Values(Reader(app.file, app.env)) /\ app' = app
        BY <2>1 DEF LoadConfig
      <3>3. result' = "none" => Unmarshals(Reader(app.file, app.env))
        <4>1. Loads(Reader(app.file, app.env)) \in SUBSET Ends
          BY DEF Loads, MayFail, Ends
        <4>2. result' = "none" => "ok" \in Loads(Reader(app.file, app.env))
          BY <1>1, <2>1, <4>1, CallSplit DEF LoadConfig, Moves
        <4> QED BY <4>2 DEF Loads
      <3> QED BY <3>1, <3>2, <3>3 DEF AsRead
    <2>2. CASE ~LoadConfig
      <3>1. conf' = conf /\ app' = app /\ pc # "load"
        BY <1>3, <2>2 DEF CreateService, validateConfig, SetLogger, BuildClient, ClientsBuilt,
             ResolveRule, RulesResolved, ServerOptions, DialTemporal, BuildWorker
      <3>2. Loaded
        BY <1>1, <3>1 DEF Loaded, Moves
      <3> QED BY <3>1, <3>2 DEF Booting, AsRead
    <2> QED BY <2>1, <2>2
  <1>5. Validated' => LogTagsHold'
    <2>1. CASE validateConfig
      <3>1. Validated' => result' = "none"
        BY <1>1, <2>1 DEF validateConfig, Validated, Moves
      <3>2. result' = "none" => LogTagsHold /\ conf' = conf
        <4> DEFINE to == IF app.kind = "server" THEN "logger" ELSE "dial"
                   out == OkIf(HookAccepts /\ TagsHold)
        <4>1. out \in SUBSET Ends
          BY DEF OkIf, Ends
        <4>2. result' = "none" => "ok" \in out
          <5>1. Call(out, to) /\ result = "none"
            BY <1>1, <2>1 DEF validateConfig, Moves
          <5> HIDE DEF out, to
          <5> QED BY <4>1, <5>1, CallSplit
        <4> QED BY <2>1, <4>2 DEF OkIf, TagsHold, validateConfig
      <3> QED BY <3>1, <3>2 DEF LogTagsHold
    <2>2. CASE LoadConfig
      BY <1>1, <2>2 DEF LoadConfig, Validated, Moves
    <2>3. CASE SetLogger \/ Rest
      <3>1. conf' = conf
        BY <2>3 DEF CreateService, SetLogger, BuildClient, ClientsBuilt,
             ResolveRule, RulesResolved, ServerOptions, DialTemporal, BuildWorker
      <3>2. pc # "validate"
        BY <2>3 DEF CreateService, SetLogger, BuildClient, ClientsBuilt,
             ResolveRule, RulesResolved, ServerOptions, DialTemporal, BuildWorker
      <3>3. Validated' => Validated
        BY <1>1, <3>2 DEF Validated, Moves
      <3> QED BY <3>1, <3>3 DEF Booting, LogTagsHold
    <2> QED BY <1>3, <2>1, <2>2, <2>3
  <1>6. Validated' /\ app'.hooks.validate = "checks" =>
          Checked(grpcTLS') /\ \A i \in DOMAIN downs' : Checked(downs'[i].tls)
    <2> SUFFICES ASSUME Validated', app'.hooks.validate = "checks"
                 PROVE  Checked(grpcTLS') /\ \A i \in DOMAIN downs' : Checked(downs'[i].tls)
      OBVIOUS
    <2>1. CASE validateConfig
      <3>1. HookAccepts
        <4> DEFINE to == IF app.kind = "server" THEN "logger" ELSE "dial"
                   out == OkIf(HookAccepts /\ TagsHold)
        <4>1. out \in SUBSET Ends
          BY DEF OkIf, Ends
        <4>2. "ok" \in out
          <5>1. Call(out, to) /\ result = "none" /\ result' = "none"
            BY <1>1, <2>1 DEF validateConfig, Moves, Validated
          <5> HIDE DEF out, to
          <5> QED BY <4>1, <5>1, CallSplit
        <4> QED BY <4>2 DEF OkIf
      <3>2. app.hooks.validate = "checks"
        BY <1>1 DEF Moves
      <3>3. Valid(grpcTLS) /\ \A i \in DOMAIN downs : Valid(downs[i].tls)
        BY <3>1, <3>2 DEF HookAccepts
      <3>4. /\ downs' = [i \in DOMAIN downs |-> [downs[i] EXCEPT !.tls = Normalised(@)]]
            /\ grpcTLS' = Normalised(grpcTLS)
        BY <2>1, <3>1, <3>2 DEF validateConfig
      <3>5. \A i \in DOMAIN downs : /\ downs[i].tls \in TLSType
                                    /\ [downs[i] EXCEPT !.tls = Normalised(@)].tls = Normalised(downs[i].tls)
        <4>1. \A i \in DOMAIN downs : downs[i] \in DownType
          BY DEF BootType
        <4> QED BY <4>1 DEF DownType
      <3>6. \A i \in DOMAIN downs : Checked(Normalised(downs[i].tls))
        BY <3>3, <3>5, ValidateAgain
      <3>7. Checked(grpcTLS')
        BY <3>3, <3>4, ValidateAgain DEF BootType
      <3> QED BY Zenon, <3>4, <3>5, <3>6, <3>7
    <2>2. CASE LoadConfig
      BY <1>1, <2>2 DEF LoadConfig, Validated, Moves
    <2>3. CASE SetLogger \/ Rest
      <3>1. grpcTLS' = grpcTLS /\ downs' = downs
        BY <2>3 DEF CreateService, SetLogger, BuildClient, ClientsBuilt,
             ResolveRule, RulesResolved, ServerOptions, DialTemporal, BuildWorker
      <3>2. pc # "validate"
        BY <2>3 DEF CreateService, SetLogger, BuildClient, ClientsBuilt,
             ResolveRule, RulesResolved, ServerOptions, DialTemporal, BuildWorker
      <3>3. Validated /\ app.hooks.validate = "checks"
        BY <1>1, <3>2 DEF Validated, Moves
      <3> QED BY <3>1, <3>3 DEF Booting
    <2> QED BY <1>3, <2>1, <2>2, <2>3
  <1>7. /\ pc' \in {"logger", "rules", "options"} \/ result' = "server" => app'.kind = "server"
        /\ pc' \in {"dial", "worker"} => app'.kind = "worker"
    BY <1>1 DEF Moves, Booting
  <1> QED BY <1>4, <1>5, <1>6, <1>7 DEF Booting
\* Each round of resolveAuthorizationRule adds the rule it must and the goroutines of its
\* own key caches, or ends the boot (callback.go:234-271).
LEMMA NextResolving ==
    ASSUME BootType, Resolving, Next
    PROVE  Resolving'
  <1>1. Moves
    BY NextMoves
  <1>2. app \in Apps /\ rules \in Seq({AlwaysGrant, Names(app.issuers)}) /\ Len(rules) \in Nat
    BY DEF BootType
  <1>3. CASE ResolveRule /\ result' = "none"
    <2>1. pc = "rules" /\ pc' = "rules" /\ app' = app /\ Len(rules) < Len(app.rules) /\ Len(app.rules) \in Nat
      BY <1>2, <1>3, AppsAssumption DEF Configured, ResolveRule, Go, Return
    <2> DEFINE new == IF app.disableRules THEN AlwaysGrant ELSE Names(app.issuers)
    <2>2. rules' = Append(rules, new)
      BY <1>3 DEF ResolveRule, Go, Return
    <2>3. Len(rules') = Len(rules) + 1 /\ rules' # << >>
      BY <1>2, <2>2
    <2>4. \A i \in DOMAIN rules' : rules'[i] = new
      BY <1>2, <2>1, <2>2 DEF Resolving
    <2>5. ~app.disableRules => /\ app.jwt /\ Refusals(app.issuers) = {}
                               /\ fetchers' = Len(rules') * Started(app.issuers)
      <3> SUFFICES ASSUME ~app.disableRules
                   PROVE  /\ app.jwt /\ Refusals(app.issuers) = {}
                          /\ fetchers' = Len(rules') * Started(app.issuers)
        OBVIOUS
      <3>1. app.jwt /\ Refusals(app.issuers) = {} /\ fetchers' = fetchers + Started(app.issuers)
        BY <1>3 DEF ResolveRule, Return
      <3>2. Started(app.issuers) \in Nat
        BY <1>2, <3>1, StartedNat
      <3>3. fetchers = Len(rules) * Started(app.issuers)
        <4>1. CASE rules = << >>
          BY <2>1, <3>2, <4>1 DEF Resolving
        <4>2. CASE rules # << >>
          BY <2>1, <4>2 DEF Resolving
        <4> QED BY <4>1, <4>2
      <3>4. \A n, k \in Nat : n * k + k = (n + 1) * k
        OBVIOUS
      <3> QED BY <1>2, <2>3, <3>1, <3>2, <3>3, <3>4
    <2>6. Len(rules') <= Len(app.rules)
      BY <1>2, <2>1, <2>3
    <2> HIDE DEF new
    <2>7. pc' # "options" /\ result' # "server"
      BY <1>3, <2>1
    <2> QED BY <2>1, <2>3, <2>4, <2>5, <2>6, <2>7 DEF Resolving, new
  <1>4. CASE result' \in {"error", "panic", "exit"}
    BY <1>1, <1>4 DEF Moves, Resolving
  <1>5. CASE ~ResolveRule /\ result' \notin {"error", "panic", "exit"}
    <2>1. rules' = rules /\ fetchers' = fetchers /\ app' = app
      BY <1>5 DEF Next, LoadConfig, CreateService, validateConfig, SetLogger, BuildClient,
           ClientsBuilt, RulesResolved, ServerOptions, DialTemporal, BuildWorker
    <2>2. pc' = "options" => Len(rules) = Len(app.rules) /\ pc = "rules"
      BY <1>1, <1>5 DEF Moves, Next, LoadConfig, CreateService, validateConfig, SetLogger, BuildClient,
           ClientsBuilt, RulesResolved, ServerOptions, DialTemporal, BuildWorker, Go
    <2>3. pc' = "rules" => pc \in {"rules", "clients"}
      BY <1>1 DEF Moves
    <2>4. result' = "server" => pc = "options"
      BY <1>1, <1>5 DEF Moves
    <2>5. pc' \in {"load", "create", "validate", "logger", "dial", "clients", "worker"} =>
            pc \in {"load", "create", "validate", "logger", "dial", "clients", "worker"}
      BY <1>1 DEF Moves
    <2>6. Len(app.rules) \in Nat
      BY <1>2, AppsAssumption DEF Configured
    <2>7. rules = << >> => Len(rules) = 0 /\ DOMAIN rules = {}
      OBVIOUS
    <2>8. \A i \in DOMAIN rules : pc \in {"rules", "options"} =>
             rules[i] = IF app.disableRules THEN AlwaysGrant ELSE Names(app.issuers)
      BY DEF Resolving
    <2>9. pc' \in {"rules", "options"} \/ result' = "server" =>
             /\ \A i \in DOMAIN rules : rules[i] = IF app.disableRules THEN AlwaysGrant ELSE Names(app.issuers)
             /\ Len(rules) <= Len(app.rules)
             /\ rules = << >> => fetchers = 0
             /\ ~app.disableRules /\ rules # << >> =>
                  /\ app.jwt /\ Refusals(app.issuers) = {}
                  /\ fetchers = Len(rules) * Started(app.issuers)
      <3>1. CASE pc \in {"rules", "options"}
        BY <3>1 DEF Resolving
      <3>2. CASE pc = "clients"
        <4>1. rules = << >> /\ fetchers = 0
          BY <3>2 DEF Resolving
        <4> QED BY <2>6, <2>7, <4>1
      <3> QED BY <2>2, <2>3, <2>4, <3>1, <3>2
    <2>10. pc' = "options" \/ result' = "server" => Len(rules) = Len(app.rules)
      BY <2>2, <2>4 DEF Resolving
    <2>11. pc' \in {"load", "create", "validate", "logger", "dial", "clients", "worker"} =>
             rules = << >> /\ fetchers = 0
      BY <2>5 DEF Resolving
    <2> QED BY <2>1, <2>9, <2>10, <2>11 DEF Resolving
  <1>6. ResolveRule => result' \notin {"server", "worker"}
    BY <1>1 DEF Moves, ResolveRule
  <1> QED BY <1>1, <1>3, <1>4, <1>5, <1>6 DEF Moves

\* A panic comes from a worker without Hooks or from a TLSConfig that was not checked
\* (serve.go:65-73, 136-145, tls.go:130-406).
LEMMA NextPanics ==
    ASSUME BootType, Booting, Next
    PROVE  ValidatedNeverPanics'
  <1> SUFFICES ASSUME result' = "panic"
               PROVE  ValidatedNeverPanics'
    BY DEF ValidatedNeverPanics
  <1>1. Moves
    BY NextMoves
  <1>2. MayFail \in SUBSET Ends /\ {"ok"} \in SUBSET Ends /\ \A t : OkIf(t) \in SUBSET Ends
    BY DEF MayFail, OkIf, Ends
  <1>3. ASSUME NEW tls \in TLSType, "panic" \in MakeTLSConfig(tls), Validated,
               tls \in {grpcTLS} \cup {downs[i].tls : i \in DOMAIN downs},
               UNCHANGED <<downs, grpcTLS>>
        PROVE  ValidatedNeverPanics'
    <2>1. ~Checked(tls)
      BY <1>3, CheckedMakes
    <2>2. app.hooks.validate # "checks"
      BY <1>3, <2>1 DEF Booting
    <2> QED BY <1>1, <1>3, <2>1, <2>2 DEF ValidatedNeverPanics, Checked, Moves
  <1>4. CASE LoadConfig
    <2>1. Loads(Reader(app.file, app.env)) \in SUBSET Ends /\ "panic" \notin Loads(Reader(app.file, app.env))
      BY DEF Loads, MayFail, Ends
    <2> QED BY <1>1, <1>4, <2>1, CallSplit DEF LoadConfig, Moves
  <1>5. CASE CreateService
    BY <1>1, <1>2, <1>5, CallSplit DEF CreateService, Moves, MayFail
  <1>6. CASE validateConfig
    <2> DEFINE to == IF app.kind = "server" THEN "logger" ELSE "dial"
               out == OkIf(HookAccepts /\ TagsHold)
    <2>1. out \in SUBSET Ends /\ "panic" \notin out
      BY DEF OkIf, Ends
    <2>2. Call(out, to) /\ result = "none"
      BY <1>1, <1>6 DEF validateConfig, Moves
    <2> HIDE DEF out, to
    <2> QED BY <2>1, <2>2, CallSplit
  <1>7. CASE SetLogger \/ RulesResolved
    BY <1>1, <1>7 DEF SetLogger, RulesResolved, Go, Moves
  <1>8. CASE BuildClient
    <2> DEFINE d == downs[built + 1]
               out == BuildDownstream(d)
    <2>1. out \in SUBSET Ends
      BY NextDown, ClientEnds, <1>8 DEF DownType
    <2>2. /\ Call(out, "clients") /\ pc = "clients" /\ UNCHANGED <<downs, grpcTLS>>
          /\ built + 1 \in DOMAIN downs
      BY <1>8, NextDown DEF BuildClient
    <2>3. "panic" \in out
      <3> HIDE DEF out
      <3> QED BY <1>1, <2>1, <2>2, CallSplit DEF Moves
    <2>4. \/ "panic" \in MakeTLSConfig(d.tls)
          \/ app.kind = "worker" /\ ~app.hooks.given
      BY <1>8, <2>3, NextDown, ClientEnds
    <2>5. d.tls \in TLSType
      <3>1. d \in DownType
        BY <1>8, NextDown
      <3> QED BY <3>1 DEF DownType
    <2>6. CASE "panic" \in MakeTLSConfig(d.tls)
      BY <1>3, <2>2, <2>5, <2>6 DEF Validated
    <2>7. CASE app.kind = "worker" /\ ~app.hooks.given
      BY <1>1, <2>7 DEF ValidatedNeverPanics, Moves
    <2> QED BY <2>4, <2>6, <2>7
  <1>9. CASE ClientsBuilt
    <2> DEFINE out == IF app.db THEN MayFail ELSE {"ok"}
    <2>1. out \in SUBSET Ends /\ "panic" \notin out
      BY DEF MayFail, Ends
    <2>2. Call(out, "rules") \/ Go("worker")
      BY <1>9 DEF ClientsBuilt
    <2> HIDE DEF out
    <2> QED BY <1>1, <2>1, <2>2, CallSplit DEF Go, Moves
  <1>10. CASE ResolveRule
    BY <1>1, <1>10 DEF ResolveRule, Go, Return, Moves
  <1>11. CASE ServerOptions
    <2>1. /\ "panic" \in ResolveGrpcOptions(app.hooks.server, grpcTLS)
          /\ pc = "options" /\ UNCHANGED <<downs, grpcTLS>>
      BY <1>11 DEF ServerOptions, Return
    <2>2. "panic" \in MakeTLSConfig(grpcTLS)
      BY <2>1, OptionsEnds
    <2> QED BY <1>3, <2>1, <2>2 DEF Validated, BootType
  <1>12. CASE DialTemporal
    <2>1. app.hooks.given => result' # "panic"
      BY <1>1, <1>2, <1>12, CallSplit DEF DialTemporal, Moves, MayFail
    <2>2. app.kind = "worker"
      BY <1>12 DEF DialTemporal, Booting
    <2> QED BY <1>1, <2>1, <2>2 DEF ValidatedNeverPanics, Moves
  <1>13. CASE BuildWorker
    BY <1>13 DEF BuildWorker, MayFail, Return
  <1> QED BY SMTT(30), <1>4, <1>5, <1>6, <1>7, <1>8, <1>9, <1>10, <1>11, <1>12, <1>13 DEF Next

\* The inductive invariant of the boot
LEMMA BootInvariance == Spec => []BootInv
  <1>1. Init => BootInv
    BY InitBoot
  <1>2. BootInv /\ [Next]_vars => BootInv'
    <2> SUFFICES ASSUME BootInv, [Next]_vars PROVE BootInv'
      OBVIOUS
    <2>1. CASE Next
      BY <2>1, NextType, NextBooting, NextResolving, NextPanics DEF BootInv
    <2>2. CASE UNCHANGED vars
      BY <2>2 DEF vars, BootInv, BootType, Booting, Resolving, ValidatedNeverPanics, Loaded, Validated,
                  AsRead, LogTagsHold
    <2> QED BY <2>1, <2>2
  <1> QED BY <1>1, <1>2, PTL DEF Spec
-----------------------------------------------------------------------------

\* No nil pointer ends the boot of an application whose hook validates every TLSConfig,
\* except a worker's without Hooks, whatever its configuration is.
THEOREM BootPanics == Spec => []ValidatedNeverPanics
  <1>1. BootInv => ValidatedNeverPanics
    BY DEF BootInv
  <1> QED BY <1>1, BootInvariance, PTL

\* No server comes out of NewServer with an endpoint that lacks its rule, however many
\* endpoints and issuers there are (callback.go:234-271).
THEOREM RulesInPlace == Spec => []EveryRuleIsInPlace
  <1>1. BootInv => EveryRuleIsInPlace
    <2> SUFFICES ASSUME BootInv, result = "server" PROVE EveryRuleIsInPlace
      BY DEF EveryRuleIsInPlace
    <2>1. /\ Len(rules) = Len(app.rules)
          /\ \A i \in DOMAIN rules : rules[i] = IF app.disableRules THEN AlwaysGrant ELSE Names(app.issuers)
          /\ ~app.disableRules /\ rules # << >> =>
               app.jwt /\ fetchers = Len(rules) * Started(app.issuers)
      BY DEF BootInv, Resolving
    <2>2. app.rules # << >> => rules # << >>
      <3>1. app.rules \in Seq(STRING)
        BY AppsAssumption DEF Configured, BootInv, BootType
      <3> QED BY <2>1, <3>1
    <2> QED BY <2>1, <2>2 DEF EveryRuleIsInPlace
  <1> QED BY <1>1, BootInvariance, PTL

\* The options of a server or worker are those written, for every file and environment
\* (serve.go:381-405, configreaderimpl.go:55-159).
THEOREM WrittenConfig == Spec => []ConfigIsAsWritten
  <1>1. BootInv => ConfigIsAsWritten
    <2> SUFFICES ASSUME BootInv, result \in {"server", "worker"} PROVE ConfigIsAsWritten
      BY DEF ConfigIsAsWritten
    <2> DEFINE r == Reader(app.file, app.env)
               prefixed == EnvPrefix \in DOMAIN app.file /\ app.file[EnvPrefix] # NoText
               fromFile == {o \in Options : o \in DOMAIN app.file}
               fromEnv  == {o \in fromFile \cup DOMAIN SetDefaults :
                               prefixed /\ o \in DOMAIN app.env /\ app.env[o] # NoText}
    <2>1. conf = Values(r) /\ Unmarshals(r) /\ LogTagsHold
      BY DEF BootInv, Booting, Loaded, Validated, AsRead
    <2>2. /\ r.file = app.file /\ r.defaults = SetDefaults /\ r.strict /\ r.ignored = {EnvPrefix}
          /\ r.env = IF prefixed THEN app.env ELSE NoSource
      BY ReaderIs
    <2>3. DOMAIN NoSource = {} /\ DOMAIN SetDefaults = {"level", "format"}
      BY DEF NoSource, SetDefaults
    <2> HIDE DEF r
    <2>4. DOMAIN app.file \subseteq Options \cup {EnvPrefix}
      BY <2>1, <2>2 DEF Unmarshals, NoUnusedKeys, AllKeys
    <2>5. \A o \in fromFile \cup DOMAIN SetDefaults : o \in Options /\ conf[o] = Decoded(Lookup(r, o))
      <3>1. \A o \in fromFile \cup DOMAIN SetDefaults : o \in Options /\ o \in AllKeys(r)
        BY <2>2, <2>3 DEF AllKeys, Options
      <3> QED BY <2>1, <3>1 DEF Values
    <2>6. \A o \in fromEnv : Lookup(r, o) = app.env[o]
      BY <2>2 DEF Lookup
    <2>7. \A o \in fromFile \ fromEnv : Lookup(r, o) = app.file[o]
      BY <2>2, <2>3 DEF Lookup
    <2>8. \A o \in DOMAIN SetDefaults \ (fromFile \cup fromEnv) : Lookup(r, o) = SetDefaults[o]
      BY <2>2, <2>3 DEF Lookup, Options
    <2>9. \A o \in DOMAIN SetDefaults : Decoded(SetDefaults[o]) = SetDefaults[o]
      BY <2>3, LevelTexts DEF SetDefaults
    <2>10. ~ReadsAsLevel(conf["name"])
      <3>1. conf["name"] = NoText \/ conf["name"] = Decoded(Lookup(r, "name"))
        BY <2>1 DEF Values, Options
      <3> QED BY <3>1, LevelTexts
    <2>11. \A o \in fromEnv \ {"level", "name"} : ~ReadsAsLevel(app.env[o])
      <3> SUFFICES ASSUME NEW o \in fromEnv \ {"level", "name"} PROVE ~ReadsAsLevel(app.env[o])
        OBVIOUS
      <3>1. o = "format"
        BY <2>5 DEF Options
      <3>2. conf["format"] = Decoded(app.env["format"])
        BY <2>5, <2>6, <3>1
      <3>3. conf["format"] \in {"color", "json", "text"}
        BY <2>1 DEF LogTagsHold
      <3> QED BY <3>1, <3>2, <3>3, LevelTexts
    <2>12. \A o \in fromEnv : conf[o] = Decoded(app.env[o])
      BY <2>5, <2>6
    <2>13. \A o \in fromFile \ fromEnv : conf[o] = Decoded(app.file[o])
      BY <2>5, <2>7
    <2>14. \A o \in DOMAIN SetDefaults \ (fromFile \cup fromEnv) : conf[o] = SetDefaults[o]
      BY <2>5, <2>8, <2>9
    <2> QED BY SMTT(30), <2>4, <2>10, <2>11, <2>12, <2>13, <2>14 DEF ConfigIsAsWritten
  <1> QED BY <1>1, BootInvariance, PTL
=============================================================================
