----------------------------- MODULE ErrorMapping -----------------------------
(***************************************************************************)
(* common/errors.go, error_handler.go, custom_error.go and                 *)
(* http_error_response_writer.go: from the error a handler meets to the    *)
(* status the client is answered with. An error is a record of its Go type *)
(* (tag) and of what the mapping looks at; messages are left out.          *)
(***************************************************************************)
EXTENDS Integers

\* The nil error, and an error of a type the mapping knows nothing about.
NilError == [tag |-> "nil"]
Plain    == [tag |-> "plain"]

\* *ServerError and *DownstreamError: the two ErrorKinders.
ServerError(kind)     == [tag |-> "server", kind |-> kind]
DownstreamError(kind) == [tag |-> "downstream", kind |-> kind]

\* CustomError: its "http_status" entry, an integer or one of the two below.
CustomError(status) == [tag |-> "custom", status |-> status]
NoStatus  == 0    \* no such entry
BadStatus == -1   \* an entry strconv.Atoi refuses

\* wrappedError; marshals: whether encoding/json accepts its extra fields.
Wrapped(e, marshals) == [tag |-> "wrapped", e |-> e, marshals |-> marshals]

\* ErrorWriter; writes: what its WriteError returns.
Writer(writes) == [tag |-> "writer", writes |-> writes]

IsErrorKinder(err) == err.tag \in {"server", "downstream"}

-----------------------------------------------------------------------------

\* expired: ctx.Err() == context.DeadlineExceeded
\* Slip: the kind of the cause is looked at before the deadline.
CreateErrorKeepsCause(expired, kind, cause) ==
    IF IsErrorKinder(cause) \/ cause.tag \in {"custom", "wrapped"}
    THEN cause
    ELSE ServerError(IF expired THEN "DownstreamTimeoutError" ELSE kind)

CreateError(expired, kind, cause) ==
    CASE expired -> ServerError("DownstreamTimeoutError")
      [] ~expired /\ (IsErrorKinder(cause) \/ cause.tag \in {"custom", "wrapped"}) -> cause
      [] OTHER -> ServerError(kind)

KindStatus ==
    [BadRequestError            |-> 400,
     InternalError              |-> 500,
     UnauthorizedError          |-> 401,
     DownstreamUnavailableError |-> 503,
     DownstreamTimeoutError     |-> 504]

MapError(expired, err) ==
    IF IsErrorKinder(err)
    THEN IF err.kind \in DOMAIN KindStatus THEN KindStatus[err.kind] ELSE 500
    ELSE IF expired THEN 504 ELSE 500

\* CustomError.HTTPError
CustomStatus(err) == IF err.status \in {NoStatus, BadStatus} THEN 500 ELSE err.status

\* mapped: the status of the HTTPError the MapError callback returns, 0 for nil.
resolveErrorAsHTTPError(expired, mapped, err) ==
    CASE mapped # 0 -> mapped
      [] mapped = 0 /\ err.tag = "custom" -> CustomStatus(err)
      [] OTHER -> MapError(expired, err)

\* HandleError for a cause that has not written its answer itself: the status
\* passed to WriteHeader. Extra fields that cannot be encoded turn it into 500.
HandleStatus(expired, kind, cause, mapped) ==
    LET unwrapped == IF cause.tag = "wrapped" THEN cause.e ELSE cause
        err       == CreateError(expired, kind, unwrapped)
        encodes   == cause.tag = "wrapped" => cause.marshals
    IN  IF encodes THEN resolveErrorAsHTTPError(expired, mapped, err) ELSE 500

\* HandleError leaves the answer to the cause.
WritesItself(cause) == cause.tag = "writer" /\ cause.writes
=============================================================================
