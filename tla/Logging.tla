------------------------------- MODULE Logging --------------------------------
(***************************************************************************)
(* log/logging.go: the Logger interface over three libraries, and the      *)
(* logger a context carries. Loggers and contexts are values; the one      *)
(* thing shared is the level of the *logrus.Logger, which the operators    *)
(* take as a parameter. Fields are pairs of a key and a value.             *)
(***************************************************************************)
EXTENDS Naturals

\* pkg/log (the default), pkg/logging, logrus
Kinds == {"pkg", "zero", "logrus"}

\* ErrorLevel, InfoLevel, DebugLevel: a logger at a level writes the levels below it.
LevelNumber == [error |-> 2, info |-> 4, debug |-> 5]
Levels == DOMAIN LevelNumber

\* Fields set later win over those with the same key.
Merge(old, new) == {f \in old : \A g \in new : g[1] # f[1]} \cup new

NoLogger == [fields |-> {}, level |-> "none"]

\* A context: where GetLogger finds its logger ("none", "native": in the library's own
\* place, "captured": in the closure of Inject), and the two places.
EmptyContext == [get |-> "none", native |-> NoLogger, captured |-> NoLogger]

\* WithStr, WithInt and WithDuration: a new logger, the old one is left alone.
withField(lg, key, value) == [lg EXCEPT !.fields = Merge(@, {<<key, value>>})]

\* Slip: every library restores the logger that was put.
InjectCaptured(kind, ctx, lg) == [ctx EXCEPT !.get = "captured", !.captured = lg, !.native = lg]

\* pkg/log merges the fields into those of the context; pkg/logging replaces them;
\* logrus has no place for fields in a context, and its closure returns the logger.
Inject(kind, ctx, lg) ==
    CASE kind = "pkg"  -> [ctx EXCEPT !.get = "native",
                                      !.native = [lg EXCEPT !.fields = Merge(ctx.native.fields, @)]]
      [] kind = "zero" -> [ctx EXCEPT !.get = "native", !.native = lg]
      [] kind = "logrus" -> [ctx EXCEPT !.get = "captured", !.captured = lg]

PutLogger(kind, ctx, lg) == Inject(kind, ctx, lg)

HasLogger(ctx) == ctx.get # "none"

GetLogger(ctx) == IF ctx.get = "captured" THEN ctx.captured ELSE ctx.native

WithStr(kind, ctx, key, value) == PutLogger(kind, ctx, withField(GetLogger(ctx), key, value))

\* The application adds a field through pkg/log or pkg/logging itself.
NativeWith(ctx, key, value) == [ctx EXCEPT !.native = withField(@, key, value)]

\* logrus.SetLevel is the only one that changes a shared logger.
SharedLevel(kind, level, shared) == IF kind = "logrus" THEN level ELSE shared

\* Slip: every library's logger is returned as it is.
WithLevelUnset(kind, lg, level) == lg

\* pkg/log knows a verbose mode and no other; logrus returns the same logger.
WithLevel(kind, lg, level) ==
    CASE kind = "pkg"    -> [lg EXCEPT !.level = IF level = "debug" THEN "debug" ELSE "info"]
      [] kind = "zero"   -> [lg EXCEPT !.level = level]
      [] kind = "logrus" -> lg

\* Whether a line of a severity is written.
Writes(kind, lg, shared, severity) ==
    LevelNumber[severity] <= LevelNumber[IF kind = "logrus" THEN shared ELSE lg.level]
=============================================================================
