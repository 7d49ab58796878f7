------------------------------- MODULE JwtAuth --------------------------------
(***************************************************************************)
(* jwtauth, jwtauth/jwthttp, jwtauth/jwtgrpc and core/authrules: from the  *)
(* Authorization header of a request to claims or to an error. A token is  *)
(* a record of the first test it fails (form) and of its scope claim; how  *)
(* the keys a verifier trusts come about is the subject of JwksCache.      *)
(***************************************************************************)
EXTENDS Naturals, Sequences

\* A header: its scheme ("none" when it is absent) and the token after it.
\* Forms of a token:
\*   "empty"       nothing follows the scheme
\*   "oneChar"     a single character
\*   "gibberish"   jwt.ParseSigned fails
\*   "unreadable"  its claims cannot be decoded
\*   "stale"       it has expired, or is not valid yet
\*   "foreign"     no verifier is registered for its issuer
\*   "unknownKey"  the issuer publishes no such key
\*   "forged"      the signature does not match
\*   "good"        none of these
Forms == {"empty", "oneChar", "gibberish", "unreadable", "stale", "foreign",
          "unknownKey", "forged", "good"}

NoClaims == [scope |-> << >>]        \* Claims{}
NotInContext == [scope |-> <<"-">>]  \* GetClaimsFromContext finds nothing

Ok(claims)   == [ok |-> TRUE, claims |-> claims, code |-> "none"]
Refuse(code) == [ok |-> FALSE, claims |-> NoClaims, code |-> code]

EmptyToken == [form |-> "empty", scope |-> << >>]

\* StdAuthenticator.Authenticate, with the verdicts of RemoteJWKSIssuer.Verify
Authenticate(token) ==
    CASE token.form \in {"empty", "oneChar", "gibberish"} -> Refuse("InvalidJWT")
      [] token.form = "unreadable" -> Refuse("Unknown")
      [] token.form = "stale"      -> Refuse("InvalidJWT")
      [] token.form \in {"foreign", "unknownKey"} -> Refuse("UntrustedSource")
      [] token.form = "forged"     -> Refuse("BadSignature")
      [] token.form = "good"       -> Ok([scope |-> token.scope])

\* errHTTPCodeMap, and 403 for an error without an HTTPStatus
HTTPStatus ==
    [Unknown |-> 500, InvalidJWT |-> 401, UntrustedSource |-> 403,
     BadSignature |-> 403, InsufficientPermissions |-> 403, none |-> 403]

\* strings.Split(scope, " ") is a sequence of words; an absent claim and one that
\* is not a string have none.
HasScope(claims, word) == \E i \in DOMAIN claims.scope : claims.scope[i] = word

-----------------------------------------------------------------------------
(* jwthttp: the middleware of hand-written routers. *)

\* More than eight characters: a token of one character counts as no token.
getBearer(header) ==
    IF header.scheme = "bearer" /\ header.token.form \notin {"empty", "oneChar"}
    THEN header.token
    ELSE EmptyToken

\* Auth.Authorise with one authoriser that wants a word in the scope claim, or with
\* none of them (the word "none")
Authorise(claims, word) ==
    IF word = "none" \/ HasScope(claims, word) THEN Ok(claims) ELSE Refuse("InsufficientPermissions")

\* Slip: claims already in the context are taken without asking the authorisers.
AuthSkipsAuthorisers(inContext, header, word) ==
    IF inContext # NotInContext
    THEN Ok(inContext)
    ELSE LET auth == Authenticate(getBearer(header)) IN
         IF auth.ok THEN Authorise(auth.claims, word) ELSE auth

Auth(inContext, header, word) ==
    IF inContext # NotInContext
    THEN Authorise(inContext, word)
    ELSE LET auth == Authenticate(getBearer(header)) IN
         IF auth.ok THEN Authorise(auth.claims, word) ELSE auth

\* The claims found in the header are put in the context, but the authorisers are
\* asked about the empty ones of the enclosing scope.
AuthAllowAnon(inContext, header, word) ==
    IF inContext # NotInContext
    THEN Authorise(inContext, word)
    ELSE IF getBearer(header) = EmptyToken
    THEN Ok(NotInContext)
    ELSE LET auth == Authenticate(getBearer(header))
             seen == Authorise(NoClaims, word)
         IN  IF auth.ok /\ ~seen.ok THEN seen ELSE auth

\* A middleware: which of the two, and the word its authoriser wants
Admit(mw, inContext, header) ==
    IF mw.allowAnon
    THEN AuthAllowAnon(inContext, header, mw.word)
    ELSE Auth(inContext, header, mw.word)

-----------------------------------------------------------------------------
(* authrules: the rule the service's specification gives an endpoint. *)

\* getBearerTokenFromIncomingRESTContext returns no error
HasRestBearer(header) == getBearer(header) # EmptyToken

\* authorize; granted: what the rule's expression says of the token's claims
authorize(token, granted) ==
    LET auth == Authenticate(token) IN
    IF ~auth.ok THEN auth
    ELSE IF granted THEN auth
    ELSE Refuse("InsufficientPermissions")

\* A scheme with nothing after it counts as a token here.
GetBearerFromIncomingContext(header) ==
    CASE header.scheme = "none"   -> Refuse("NoAuthHeader")
      [] header.scheme = "bearer" -> Ok(header.token)
      [] OTHER -> Refuse("ParseJWT")

\* Slip: a call without a header is let through, as AuthAllowAnon does for REST.
grpcRuleAllowAnon(header, granted) ==
    IF header.scheme = "none" THEN Ok(NoClaims) ELSE authorize(header.token, granted)

\* MakeGRPCJWTAuthorizationRule
grpcRule(header, granted) ==
    LET bearer == GetBearerFromIncomingContext(header) IN
    IF bearer.ok THEN authorize(header.token, granted) ELSE bearer

\* The code a client of the gRPC server sees: an AuthError is no status.
GrpcCode(refusal) ==
    CASE refusal.code \in {"NoAuthHeader", "ParseJWT"} -> "Unauthenticated"
      [] refusal.code = "InsufficientPermissions" -> "PermissionDenied"
      [] OTHER -> "Unknown"
=============================================================================
