-------------------------- MODULE ServiceCallsProofs --------------------------
(***************************************************************************)
(* The properties of ServiceCalls for any number of calls, any requests    *)
(* and any bounds. Two things carry them: every frame a call holds is      *)
(* sound (the logger in its context has the fields put on it and the level *)
(* asked for), and the place of a call in the middleware or among the      *)
(* interceptors says which of its frames have a logger.                    *)
(***************************************************************************)
EXTENDS ServiceCalls, TLAPS

FrameFields == {"ctx", "id", "own", "asked"}

CallFields == {"req", "pc", "outer", "core", "user", "next", "ops", "seen", "late", "panicked",
               "served", "code"}

\* The context has the parts Logging gives it, the logger is in its library's place and
\* has the fields put on the context.
Carries(k, f) ==
    /\ DOMAIN f = FrameFields
    /\ DOMAIN f.ctx = {"get", "native", "captured"}
    /\ DOMAIN f.ctx.native = {"fields", "level"} /\ DOMAIN f.ctx.captured = {"fields", "level"}
    /\ f.ctx.get \in {"none", IF k = "logrus" THEN "captured" ELSE "native"}
    /\ GetLogger(f.ctx).fields = f.own

\* The level pkg/log and pkg/logging make of what was asked for
Made(k, asked) == IF k = "pkg" /\ asked = "error" THEN "info" ELSE asked

Levelled(k, f) ==
    HasLogger(f.ctx) => /\ f.asked \in Levels
                        /\ k # "logrus" => GetLogger(f.ctx).level = Made(k, f.asked)

Sound(k, f) == Carries(k, f) /\ Levelled(k, f)

\* The trace ids among fields
Traced(fields) == {g \in fields : g[1] = "traceid"}

-----------------------------------------------------------------------------

BootOk ==
    /\ kind \in Kinds /\ options \in {"default", "additional", "override", "legacy"}
    /\ Sound(kind, boot) /\ HasLogger(boot.ctx)
    /\ boot.id = NoId /\ Traced(boot.own) = {}

Shape == DOMAIN call = Calls /\ \A c \in Calls : DOMAIN call[c] = CallFields

InFlight(c) == call[c].pc \notin {"idle", "done"}

\* CoreRequestContextMiddleware has let the request in
Inside(c) == Rest(c) /\ call[c].pc \in {"handler", "unwind", "flush", "exit"}

\* The place of makeLoggerInterceptor, or of the interceptor the application has instead
LoggerAt(source) == IF source = "legacy" THEN 2 ELSE 1

\* Which listener a call came in by, from where it is
Placed(c) ==
    /\ call[c].pc \in {"idle", "trace", "core", "handler", "unwind", "flush", "exit", "intercept",
                       "method", "done"}
    /\ call[c].pc # "idle" => call[c].req \in Requests
    /\ call[c].pc = "trace" => call[c].req.proto = "public"
    /\ call[c].pc \in {"core", "unwind", "flush", "exit"} => Rest(c)
    /\ call[c].pc \in {"intercept", "method"} => call[c].req.proto = "grpc"
    /\ call[c].pc = "intercept" => call[c].next \in DOMAIN Interceptors(options)
    /\ call[c].pc = "handler" /\ call[c].req.proto = "grpc" => call[c].served

\* Which frames have a logger, from where the call is
Equipped(c) ==
    /\ Sound(kind, call[c].outer) /\ Sound(kind, call[c].core) /\ Sound(kind, call[c].user)
    /\ Rest(c) /\ InFlight(c) => call[c].outer = boot /\ HasLogger(call[c].user.ctx)
    /\ Inside(c) => HasLogger(call[c].core.ctx)
    /\ call[c].pc = "intercept" =>
         IF call[c].next <= LoggerAt(options)
         THEN call[c].user = NoFrame
         ELSE HasLogger(call[c].user.ctx)
    /\ call[c].pc \in {"method", "handler"} /\ options # "override" => HasLogger(call[c].user.ctx)

Controlled == \A c \in Calls : Placed(c) /\ Equipped(c)

\* What a call knows of the level: its own while it is the only one to have set one, the
\* boot's while it has set none, nothing without a logger.
Shares(c) ==
    /\ kind = "logrus" /\ askers = {c} /\ call[c].pc # "done" => shared = call[c].user.asked
    /\ c \notin askers /\ HasLogger(call[c].user.ctx) => call[c].user.asked = boot.asked
    /\ HasLogger(call[c].user.ctx) \/ call[c].user.asked = None
    /\ call[c].pc = "done" => call[c].user.asked = None

\* With logrus: the shared level is the boot's until a call sets it.
Shared ==
    /\ askers \subseteq Calls
    /\ \A c \in askers : call[c].pc \in {"handler", "unwind", "flush", "exit", "done"}
    /\ kind = "logrus" /\ askers = {} => shared = boot.asked
    /\ \A c \in Calls : Shares(c)

\* TraceabilityMiddleware has given a public request its id
Named(c) == call[c].req.proto = "public" /\ call[c].pc \in {"core", "handler", "unwind", "flush", "exit"}

\* What a call knows of its trace id: what the header says, or what was made up for it; once
\* inside, the middleware's context, the application's and what it was told agree.
Identity(c) ==
    /\ ~Named(c) => call[c].user.id = NoId
    /\ Named(c) => IF call[c].req.id # NoId THEN call[c].user.id = call[c].req.id
                                             ELSE call[c].user.id \in 1..ids
    /\ ~Inside(c) => Traced(call[c].core.own) = {}
    /\ Rest(c) /\ call[c].pc \in {"trace", "core"} => call[c].seen = {}
    /\ Inside(c) => \E id \in (1..ids) \cup {call[c].user.id} :
         /\ Traced(call[c].core.own) = {<<"traceid", id>>}
         /\ Traced(call[c].user.own) = {<<"traceid", id>>}
         /\ Named(c) => id = call[c].user.id /\ call[c].seen \subseteq {id}
         /\ ~Named(c) => id \in 1..ids

\* The id made up for c is nowhere in d.
Apart(c, d) ==
    Named(c) /\ call[c].req.id = NoId =>
        call[c].user.id \notin IdOf(d) /\ call[c].user.id # call[d].user.id

Identified ==
    /\ ids \in 0..MaxIds
    /\ \A c \in Calls : Identity(c)
    /\ \A c, d \in Calls : c # d => Apart(c, d)

-----------------------------------------------------------------------------
(* What the operators of Logging do to a sound frame *)

\* The three levels of log.Level
LEMMA LevelSet == Levels = {"error", "info", "debug"}
  BY DEF Levels, LevelNumber

\* Setting fields a second time, or none, changes nothing (the merge of pkg/log).
LEMMA Merges ==
    /\ \A F, N : Merge(F, Merge(F, N)) = Merge(F, N)
    /\ \A F : Merge(F, F) = F /\ Merge({}, F) = F
  BY DEF Merge

\* A field under another key leaves the trace id; one under "traceid" replaces it.
LEMMA MergeTraced ==
    ASSUME NEW F, NEW key, NEW value
    PROVE  /\ key # "traceid" => Traced(Merge(F, {<<key, value>>})) = Traced(F)
           /\ key = "traceid" => Traced(Merge(F, {<<key, value>>})) = {<<key, value>>}
  BY DEF Traced, Merge

\* Inject puts a logger where GetLogger finds it (logging.go:171-178, 216-222, 263-270):
\* as it is, but for pkg/log, which merges its fields into those of the context.
LEMMA PutGet ==
    ASSUME NEW k \in Kinds, NEW ctx, NEW lg,
           DOMAIN ctx = {"get", "native", "captured"}, DOMAIN lg = {"fields", "level"},
           DOMAIN ctx.native = {"fields", "level"}, DOMAIN ctx.captured = {"fields", "level"}
    PROVE  LET new == PutLogger(k, ctx, lg) IN
           /\ DOMAIN new = {"get", "native", "captured"}
           /\ DOMAIN new.native = {"fields", "level"} /\ DOMAIN new.captured = {"fields", "level"}
           /\ new.get = IF k = "logrus" THEN "captured" ELSE "native"
           /\ HasLogger(new)
           /\ GetLogger(new).level = lg.level
           /\ k = "pkg"  => GetLogger(new).fields = Merge(ctx.native.fields, lg.fields)
           /\ k # "pkg" => GetLogger(new).fields = lg.fields
  <1>1. CASE k = "pkg"
    <2> DEFINE m == [lg EXCEPT !.fields = Merge(ctx.native.fields, @)]
    <2>1. DOMAIN m = {"fields", "level"} /\ m.level = lg.level /\ m.fields = Merge(ctx.native.fields, lg.fields)
      OBVIOUS
    <2>2. PutLogger(k, ctx, lg) = [ctx EXCEPT !.get = "native", !.native = m]
      BY <1>1 DEF PutLogger, Inject
    <2> HIDE DEF m
    <2> QED BY Zenon, <1>1, <2>1, <2>2 DEF GetLogger, HasLogger
  <1>2. CASE k = "zero"
    BY Zenon, <1>2 DEF PutLogger, Inject, GetLogger, HasLogger
  <1>3. CASE k = "logrus"
    BY Zenon, <1>3 DEF PutLogger, Inject, GetLogger, HasLogger
  <1> QED BY <1>1, <1>2, <1>3 DEF Kinds

\* What a logger found in a sound frame looks like
LEMMA Found ==
    ASSUME NEW k \in Kinds, NEW f, Carries(k, f)
    PROVE  /\ DOMAIN GetLogger(f.ctx) = {"fields", "level"} /\ GetLogger(f.ctx).fields = f.own
           /\ k # "logrus" => GetLogger(f.ctx) = f.ctx.native
  BY DEF Carries, GetLogger

\* WithStr keeps a frame sound: no field is lost, none of another frame comes in, the level
\* and the trace id in the context stay (logging.go:164-169, 209-214, 238-245).
LEMMA Derives ==
    ASSUME kind \in Kinds, NEW f, NEW key, NEW value, Sound(kind, f), HasLogger(f.ctx)
    PROVE  LET g == Derive(f, key, value) IN
           /\ Sound(kind, g) /\ HasLogger(g.ctx)
           /\ g.asked = f.asked /\ g.id = f.id
           /\ key # "traceid" => Traced(g.own) = Traced(f.own)
           /\ key = "traceid" => Traced(g.own) = {<<"traceid", value>>}
  <1> DEFINE lg == withField(GetLogger(f.ctx), key, value)
             new == PutLogger(kind, f.ctx, lg)
             own == Merge(f.own, {<<key, value>>})
             g == [f EXCEPT !.ctx = new, !.own = own]
  <1>1. Carries(kind, f)
    BY DEF Sound
  <1>2. DOMAIN lg = {"fields", "level"} /\ lg.fields = own /\ lg.level = GetLogger(f.ctx).level
    BY <1>1, Found DEF withField
  <1>3. Derive(f, key, value) = g
    BY DEF Derive, WithStr
  <1> HIDE DEF lg, own
  <1>4. /\ DOMAIN new = {"get", "native", "captured"}
        /\ DOMAIN new.native = {"fields", "level"} /\ DOMAIN new.captured = {"fields", "level"}
        /\ new.get = IF kind = "logrus" THEN "captured" ELSE "native"
        /\ HasLogger(new) /\ GetLogger(new).level = lg.level
        /\ kind = "pkg"  => GetLogger(new).fields = Merge(f.ctx.native.fields, lg.fields)
        /\ kind # "pkg" => GetLogger(new).fields = lg.fields
    BY <1>1, <1>2, PutGet DEF Carries
  <1>5. GetLogger(new).fields = own
    <2>1. CASE kind = "pkg"
      <3>1. f.ctx.native.fields = f.own
        BY <1>1, <2>1, Found
      <3> QED BY <1>2, <1>4, <2>1, <3>1, Merges DEF own
    <2>2. CASE kind # "pkg"
      BY <1>2, <1>4, <2>2
    <2> QED BY <2>1, <2>2
  <1> HIDE DEF new
  <1>6. DOMAIN g = FrameFields /\ g.ctx = new /\ g.own = own /\ g.asked = f.asked /\ g.id = f.id
    BY <1>1 DEF Carries, FrameFields
  <1> HIDE DEF g
  <1>7. Carries(kind, g) /\ HasLogger(g.ctx)
    BY <1>4, <1>5, <1>6 DEF Carries
  <1>8. Levelled(kind, g)
    BY <1>2, <1>4, <1>6 DEF Sound, Levelled
  <1>9. /\ key # "traceid" => Traced(own) = Traced(f.own)
        /\ key = "traceid" => Traced(own) = {<<"traceid", value>>}
    <2>1. CASE key = "traceid"
      <3>1. Traced(Merge(f.own, {<<"traceid", value>>})) = {<<"traceid", value>>}
        BY DEF Traced, Merge
      <3> QED BY <2>1, <3>1 DEF own
    <2>2. CASE key # "traceid"
      BY Zenon, <2>2, MergeTraced DEF own
    <2> QED BY <2>1, <2>2
  <1> QED BY <1>3, <1>6, <1>7, <1>8, <1>9 DEF Sound

\* WithLevel keeps the fields and sets the level asked for, as far as the library knows it
\* (logging.go:160-162, 196-207, 247-261).
LEMMA Relevels ==
    ASSUME kind \in Kinds, NEW f, NEW level \in Levels, Sound(kind, f), HasLogger(f.ctx)
    PROVE  LET lg == WithLevel(kind, GetLogger(f.ctx), level)
               g  == [f EXCEPT !.ctx = PutLogger(kind, @, lg), !.asked = level] IN
           /\ Sound(kind, g) /\ HasLogger(g.ctx)
           /\ g.asked = level /\ g.id = f.id /\ g.own = f.own
  <1> DEFINE lg == WithLevel(kind, GetLogger(f.ctx), level)
             new == PutLogger(kind, f.ctx, lg)
             g == [f EXCEPT !.ctx = new, !.asked = level]
  <1>1. Carries(kind, f)
    BY DEF Sound
  <1>2. /\ DOMAIN lg = {"fields", "level"} /\ lg.fields = f.own
        /\ kind # "logrus" => lg.level = Made(kind, level)
    BY <1>1, Found, LevelSet DEF WithLevel, Made, Kinds
  <1> HIDE DEF lg
  <1>4. /\ DOMAIN new = {"get", "native", "captured"}
        /\ DOMAIN new.native = {"fields", "level"} /\ DOMAIN new.captured = {"fields", "level"}
        /\ new.get = IF kind = "logrus" THEN "captured" ELSE "native"
        /\ HasLogger(new) /\ GetLogger(new).level = lg.level
        /\ kind = "pkg"  => GetLogger(new).fields = Merge(f.ctx.native.fields, lg.fields)
        /\ kind # "pkg" => GetLogger(new).fields = lg.fields
    BY SMTT(30), <1>1, <1>2, PutGet DEF Carries
  <1>5. GetLogger(new).fields = f.own
    <2>1. CASE kind = "pkg"
      <3>1. f.ctx.native.fields = f.own
        BY <1>1, <2>1, Found
      <3> QED BY <1>2, <1>4, <2>1, <3>1, Merges
    <2>2. CASE kind # "pkg"
      BY <1>2, <1>4, <2>2
    <2> QED BY <2>1, <2>2
  <1> HIDE DEF new
  <1>6. DOMAIN g = FrameFields /\ g.ctx = new /\ g.own = f.own /\ g.asked = level /\ g.id = f.id
    BY <1>1 DEF Carries, FrameFields
  <1> HIDE DEF g
  <1>7. Carries(kind, g) /\ HasLogger(g.ctx)
    BY <1>4, <1>5, <1>6 DEF Carries
  <1>8. Levelled(kind, g)
    BY <1>2, <1>4, <1>6 DEF Levelled
  <1> QED BY <1>6, <1>7, <1>8 DEF Sound, g, new, lg

\* A field added through pkg/log or pkg/logging itself is found through the wrapper
\* (log/README.md:147).
LEMMA NativeAdds ==
    ASSUME kind \in Kinds, kind # "logrus", NEW f, NEW value, Sound(kind, f), HasLogger(f.ctx)
    PROVE  LET g == [f EXCEPT !.ctx = NativeWith(@, "native", value), !.own = Merge(@, {<<"native", value>>})] IN
           /\ Sound(kind, g) /\ HasLogger(g.ctx)
           /\ g.asked = f.asked /\ g.id = f.id /\ Traced(g.own) = Traced(f.own)
  <1> DEFINE lg == withField(f.ctx.native, "native", value)
             new == [f.ctx EXCEPT !.native = lg]
             own == Merge(f.own, {<<"native", value>>})
             g == [f EXCEPT !.ctx = new, !.own = own]
  <1>1. Carries(kind, f) /\ f.ctx.get = "native" /\ GetLogger(f.ctx) = f.ctx.native
    BY Found DEF Sound, Carries, HasLogger
  <1>2. DOMAIN lg = {"fields", "level"} /\ lg.fields = own /\ lg.level = f.ctx.native.level
    BY <1>1, Found DEF withField
  <1> HIDE DEF lg, own
  <1>3. /\ DOMAIN new = {"get", "native", "captured"} /\ new.native = lg /\ new.get = "native"
        /\ new.captured = f.ctx.captured
    BY <1>1 DEF Carries
  <1>4. NativeWith(f.ctx, "native", value) = new
    BY DEF NativeWith, lg
  <1>5. GetLogger(new) = lg /\ HasLogger(new)
    BY <1>3 DEF GetLogger, HasLogger
  <1> HIDE DEF new
  <1>6. DOMAIN g = FrameFields /\ g.ctx = new /\ g.own = own /\ g.asked = f.asked /\ g.id = f.id
    BY <1>1 DEF Carries, FrameFields
  <1>7. [f EXCEPT !.ctx = NativeWith(@, "native", value), !.own = Merge(@, {<<"native", value>>})] = g
    BY Zenon, <1>4 DEF own
  <1> HIDE DEF g
  <1>8. Carries(kind, g)
    BY <1>1, <1>2, <1>3, <1>5, <1>6 DEF Carries
  <1>9. Levelled(kind, g)
    BY <1>1, <1>2, <1>5, <1>6 DEF Sound, Levelled
  <1>10. Traced(own) = Traced(f.own)
    BY Zenon, MergeTraced DEF own
  <1> QED BY Zenon, <1>5, <1>6, <1>7, <1>8, <1>9, <1>10 DEF Sound

\* makeLoggerInterceptor gives a call without a logger the one of the boot (grpc.go:185-194).
LEMMA PutsBoot ==
    ASSUME BootOk
    PROVE  LET g == [NoFrame EXCEPT !.ctx = PutLogger(kind, @, GetLogger(boot.ctx)),
                                    !.own = Merge(@, boot.own), !.asked = boot.asked] IN
           /\ Sound(kind, g) /\ HasLogger(g.ctx)
           /\ g.asked = boot.asked /\ g.id = NoId
  <1> DEFINE lg == GetLogger(boot.ctx)
             new == PutLogger(kind, EmptyContext, lg)
             g == [NoFrame EXCEPT !.ctx = new, !.own = boot.own, !.asked = boot.asked]
  <1>1. /\ DOMAIN NoFrame = FrameFields /\ NoFrame.ctx = EmptyContext /\ NoFrame.own = {} /\ NoFrame.id = NoId
        /\ DOMAIN EmptyContext = {"get", "native", "captured"} /\ EmptyContext.native.fields = {}
        /\ DOMAIN EmptyContext.native = {"fields", "level"} /\ DOMAIN EmptyContext.captured = {"fields", "level"}
    BY DEF NoFrame, Frame, EmptyContext, NoLogger, FrameFields
  <1>2. DOMAIN lg = {"fields", "level"} /\ lg.fields = boot.own /\ kind \in Kinds
    BY Found DEF BootOk, Sound
  <1> HIDE DEF lg
  <1>3. /\ DOMAIN new = {"get", "native", "captured"}
        /\ DOMAIN new.native = {"fields", "level"} /\ DOMAIN new.captured = {"fields", "level"}
        /\ new.get = IF kind = "logrus" THEN "captured" ELSE "native"
        /\ HasLogger(new) /\ GetLogger(new).level = lg.level
        /\ kind = "pkg"  => GetLogger(new).fields = Merge({}, lg.fields)
        /\ kind # "pkg" => GetLogger(new).fields = lg.fields
    <2>1. /\ DOMAIN new = {"get", "native", "captured"}
          /\ DOMAIN new.native = {"fields", "level"} /\ DOMAIN new.captured = {"fields", "level"}
          /\ new.get = IF kind = "logrus" THEN "captured" ELSE "native"
      BY <1>1, <1>2, PutGet
    <2>2. HasLogger(new) /\ GetLogger(new).level = lg.level
      BY <1>1, <1>2, PutGet
    <2>3. kind = "pkg" => GetLogger(new).fields = Merge(EmptyContext.native.fields, lg.fields)
      <3>1. /\ DOMAIN EmptyContext = {"get", "native", "captured"}
            /\ DOMAIN EmptyContext.native = {"fields", "level"}
            /\ DOMAIN EmptyContext.captured = {"fields", "level"}
        BY Zenon, <1>1
      <3> QED BY <1>2, <3>1, PutGet
    <2>4. kind # "pkg" => GetLogger(new).fields = lg.fields
      BY <1>1, <1>2, PutGet
    <2> HIDE DEF new
    <2> QED BY <1>1, <2>1, <2>2, <2>3, <2>4
  <1>4. GetLogger(new).fields = boot.own /\ Merge({}, boot.own) = boot.own
    BY <1>2, <1>3, Merges
  <1>5. [NoFrame EXCEPT !.ctx = PutLogger(kind, @, lg), !.own = Merge(@, boot.own), !.asked = boot.asked] = g
    BY Zenon, <1>1, <1>4
  <1> HIDE DEF new
  <1>6. DOMAIN g = FrameFields /\ g.ctx = new /\ g.own = boot.own /\ g.asked = boot.asked /\ g.id = NoId
    BY <1>1 DEF FrameFields
  <1> HIDE DEF g
  <1>7. Carries(kind, g)
    BY <1>3, <1>4, <1>6 DEF Carries
  <1>8. Levelled(kind, g)
    BY <1>3, <1>6 DEF BootOk, Sound, Levelled, lg
  <1> QED BY Zenon, <1>3, <1>5, <1>6, <1>7, <1>8 DEF Sound, lg

\* A call without a context has a sound frame, without a logger.
LEMMA Nothing == \A k \in Kinds : /\ Sound(k, NoFrame) /\ ~HasLogger(NoFrame.ctx)
                                  /\ NoFrame.id = NoId /\ Traced(NoFrame.own) = {} /\ NoFrame.asked = None
  BY DEF NoFrame, Frame, EmptyContext, NoLogger, Sound, Carries, Levelled, FrameFields, HasLogger, GetLogger, Traced
-----------------------------------------------------------------------------
(* What an action does to the record of its call, and to no other *)

Moves(c, changed) ==
    /\ DOMAIN call' = Calls /\ DOMAIN call'[c] = CallFields
    /\ \A d \in Calls \ {c} : call'[d] = call[d]
    /\ \A x \in CallFields \ changed : call'[c][x] = call[c][x]

\* The call is over: its frames are gone (Done).
Over(c) ==
    /\ Moves(c, CallFields \ {"req", "served"})
    /\ call'[c].pc = "done"
    /\ call'[c].outer = NoFrame /\ call'[c].core = NoFrame /\ call'[c].user = NoFrame
    /\ call'[c].seen = {}

\* A request comes in: at a listener the application has, with the boot's context (REST)
\* or none (gRPC).
LEMMA ArriveEffect ==
    ASSUME Shape, NEW c \in Calls, Arrive(c)
    PROVE  \E q \in Requests :
             /\ Moves(c, CallFields)
             /\ call'[c].req = q /\ q.proto \in {"public", "admin", "grpc"}
             /\ q.proto = "public" => call'[c].pc = "trace"
             /\ q.proto = "admin" => call'[c].pc = "core"
             /\ q.proto = "grpc" => call'[c].pc = "intercept"
             /\ call'[c].outer = IF q.proto = "grpc" THEN NoFrame ELSE boot
             /\ call'[c].user = IF q.proto = "grpc" THEN NoFrame ELSE boot
             /\ call'[c].core = NoFrame /\ call'[c].next = 1 /\ call'[c].seen = {} /\ ~call'[c].served
  <1>1. PICK q \in Requests :
          call' = [call EXCEPT ![c] =
                    [Free EXCEPT !.req = q,
                                 !.pc = CASE q.proto = "public" -> "trace"
                                          [] q.proto = "admin" -> "core"
                                          [] q.proto = "grpc" -> "intercept",
                                 !.outer = IF q.proto = "grpc" THEN NoFrame ELSE boot,
                                 !.user = IF q.proto = "grpc" THEN NoFrame ELSE boot]]
    BY Zenon DEF Arrive
  <1>2. q.proto \in {"public", "admin", "grpc"}
    BY CallersAssumption DEF Sendable
  <1> DEFINE place == CASE q.proto = "public" -> "trace"
                        [] q.proto = "admin" -> "core"
                        [] q.proto = "grpc" -> "intercept"
             first == IF q.proto = "grpc" THEN NoFrame ELSE boot
             new == [Free EXCEPT !.req = q, !.pc = place, !.outer = first, !.user = first]
  <1>3. /\ q.proto = "public" => place = "trace"
        /\ q.proto = "admin" => place = "core"
        /\ q.proto = "grpc" => place = "intercept"
    BY <1>2
  <1> HIDE DEF place, first
  <1>4. /\ DOMAIN new = CallFields /\ new.req = q /\ new.pc = place /\ new.outer = first /\ new.user = first
        /\ new.core = NoFrame /\ new.next = 1 /\ new.seen = {} /\ ~new.served
    BY DEF Free, CallFields
  <1>5. call' = [call EXCEPT ![c] = new]
    BY <1>1 DEF place, first
  <1> HIDE DEF new
  <1>6. Moves(c, CallFields) /\ call'[c] = new
    BY <1>4, <1>5 DEF Moves, Shape
  <1> QED BY <1>2, <1>3, <1>4, <1>6 DEF first

\* Done leaves the request and whether it was served.
LEMMA DoneEffect ==
    ASSUME Shape, NEW c \in Calls, NEW code, call' = Done(c, code)
    PROVE  Over(c) /\ call'[c].code = code
  <1> DEFINE new == [Free EXCEPT !.req = call[c].req, !.pc = "done", !.code = code,
                                 !.ops = call[c].ops, !.served = call[c].served]
  <1>1. /\ DOMAIN new = CallFields /\ new.req = call[c].req /\ new.served = call[c].served
        /\ new.pc = "done" /\ new.code = code
        /\ new.outer = NoFrame /\ new.core = NoFrame /\ new.user = NoFrame /\ new.seen = {}
    BY DEF Free, CallFields
  <1>2. call' = [call EXCEPT ![c] = new]
    BY DEF Done
  <1> HIDE DEF new
  <1>3. /\ DOMAIN call' = Calls /\ call'[c] = new
        /\ \A d \in Calls \ {c} : call'[d] = call[d]
    BY <1>2 DEF Shape
  <1> QED BY <1>1, <1>3 DEF Over, Moves, CallFields

\* The middleware on the way in (traceability.go:26-54, corerequestcontext.go:113-116)
LEMMA InwardEffect ==
    ASSUME Shape, NEW c \in Calls, \A d \in Calls : DOMAIN call[d].user = FrameFields
    PROVE  /\ TraceabilityMiddleware(c) =>
                \E id : /\ Moves(c, {"pc", "user"}) /\ call'[c].pc = "core"
                        /\ call'[c].user = [call[c].user EXCEPT !.id = id]
                        /\ \/ id = call[c].req.id /\ id # NoId /\ ids' = ids /\ line' = {}
                           \/ /\ call[c].req.id = NoId /\ ids < MaxIds /\ id = ids + 1 /\ ids' = ids + 1
                              /\ line' = {Line(c, Derive(call[c].outer, "remote", c), "info", FALSE)}
           /\ CoreRequestContextMiddleware(c) =>
                \E id : /\ Moves(c, {"pc", "core", "user"}) /\ call'[c].pc = "handler"
                        /\ GetTraceIDFromContext(call[c].user, id)
                        /\ call'[c].core = Derive(call[c].user, "traceid", id)
                        /\ call'[c].user = Derive(call[c].user, "traceid", id)
  <1>1. ASSUME NEW id, call' = [call EXCEPT ![c].pc = "core", ![c].user.id = id]
        PROVE  /\ Moves(c, {"pc", "user"}) /\ call'[c].pc = "core"
               /\ call'[c].user = [call[c].user EXCEPT !.id = id]
    BY Zenon, <1>1 DEF Moves, Shape, CallFields
  <1>2. ASSUME TraceabilityMiddleware(c)
        PROVE  \E id : /\ Moves(c, {"pc", "user"}) /\ call'[c].pc = "core"
                        /\ call'[c].user = [call[c].user EXCEPT !.id = id]
                        /\ \/ id = call[c].req.id /\ id # NoId /\ ids' = ids /\ line' = {}
                           \/ /\ call[c].req.id = NoId /\ ids < MaxIds /\ id = ids + 1 /\ ids' = ids + 1
                              /\ line' = {Line(c, Derive(call[c].outer, "remote", c), "info", FALSE)}
    <2>1. CASE call[c].req.id # NoId
      <3>1. call' = [call EXCEPT ![c].pc = "core", ![c].user.id = call[c].req.id] /\ line' = {} /\ ids' = ids
        BY Zenon, <1>2, <2>1 DEF TraceabilityMiddleware, Silent
      <3> QED BY Zenon, <1>1, <2>1, <3>1
    <2>2. CASE call[c].req.id = NoId
      <3>1. /\ call' = [call EXCEPT ![c].pc = "core", ![c].user.id = ids'] /\ ids < MaxIds /\ ids' = ids + 1
            /\ line' = {Line(c, Derive(call[c].outer, "remote", c), "info", FALSE)}
        BY Zenon, <1>2, <2>2 DEF TraceabilityMiddleware, Log, InitFieldsFromRequest
      <3>2. call' = [call EXCEPT ![c].pc = "core", ![c].user.id = ids + 1]
        BY <3>1
      <3> QED BY Zenon, <1>1, <2>2, <3>1, <3>2
    <2> QED BY Zenon, <2>1, <2>2
  <1>3. ASSUME CoreRequestContextMiddleware(c)
        PROVE  \E id : /\ Moves(c, {"pc", "core", "user"}) /\ call'[c].pc = "handler"
                        /\ GetTraceIDFromContext(call[c].user, id)
                        /\ call'[c].core = Derive(call[c].user, "traceid", id)
                        /\ call'[c].user = Derive(call[c].user, "traceid", id)
    <2>1. PICK id \in TraceIds :
            /\ GetTraceIDFromContext(call[c].user, id)
            /\ LET f == Derive(call[c].user, "traceid", id) IN
               call' = [call EXCEPT ![c].pc = "handler", ![c].core = f, ![c].user = f]
      BY Zenon, <1>3 DEF CoreRequestContextMiddleware
    <2> DEFINE f == Derive(call[c].user, "traceid", id)
    <2>2. call' = [call EXCEPT ![c].pc = "handler", ![c].core = f, ![c].user = f]
      BY <2>1
    <2> HIDE DEF f
    <2>3. Moves(c, {"pc", "core", "user"}) /\ call'[c].pc = "handler" /\ call'[c].core = f /\ call'[c].user = f
      BY Zenon, <2>2 DEF Moves, Shape, CallFields
    <2> QED BY <2>1, <2>3 DEF f
  <1> QED BY Zenon, <1>2, <1>3

\* An operation of the application replaces its context and counts; asking for the trace id
\* is remembered.
LEMMA StepEffect ==
    ASSUME Shape, NEW c \in Calls, NEW f
    PROVE  /\ call' = Step(c, f) => Moves(c, {"user", "ops"}) /\ call'[c].user = f
           /\ \A id : call' = [Step(c, f) EXCEPT ![c].seen = @ \cup {id}] =>
                /\ Moves(c, {"user", "ops", "seen"}) /\ call'[c].user = f
                /\ call'[c].seen = call[c].seen \cup {id}
  BY DEF Step, Moves, Shape, CallFields

\* A step on the way out, or a timeout: only where the call is and its marks change.
LEMMA ControlEffect ==
    ASSUME Shape, NEW c \in Calls
    PROVE  /\ \A to : call' = [call EXCEPT ![c].pc = to] =>
                Moves(c, {"pc"}) /\ call'[c].pc = to
           /\ call' = [call EXCEPT ![c].pc = "unwind", ![c].panicked = TRUE] =>
                Moves(c, {"pc", "panicked"}) /\ call'[c].pc = "unwind"
           /\ call' = [call EXCEPT ![c].late = TRUE] => Moves(c, {"late"})
           /\ call' = Serve(c) =>
                Moves(c, {"pc", "served"}) /\ call'[c].pc = "handler" /\ call'[c].served
  <1>1. \A to : call' = [call EXCEPT ![c].pc = to] =>
                  Moves(c, {"pc"}) /\ call'[c].pc = to
    BY DEF Moves, Shape, CallFields
  <1>2. call' = [call EXCEPT ![c].pc = "unwind", ![c].panicked = TRUE] =>
          Moves(c, {"pc", "panicked"}) /\ call'[c].pc = "unwind"
    BY Zenon DEF Moves, Shape, CallFields
  <1>3. call' = [call EXCEPT ![c].late = TRUE] => Moves(c, {"late"})
    BY DEF Moves, Shape, CallFields
  <1>4. call' = Serve(c) => Moves(c, {"pc", "served"}) /\ call'[c].pc = "handler" /\ call'[c].served
    BY Zenon DEF Serve, Moves, Shape, CallFields
  <1> QED BY <1>1, <1>2, <1>3, <1>4

\* An interceptor hands on a context to the next one, or to the method.
LEMMA InterceptEffect ==
    ASSUME Shape, NEW c \in Calls, NEW f, Intercepted(c, f)
    PROVE  /\ Moves(c, {"user", "next", "pc"}) /\ call'[c].user = f /\ call'[c].next = call[c].next + 1
           /\ call'[c].pc = IF call[c].next + 1 \in DOMAIN Interceptors(options) THEN "intercept" ELSE "method"
  <1> DEFINE n == call[c].next + 1
             to == IF n \in DOMAIN Interceptors(options) THEN "intercept" ELSE "method"
  <1>1. call' = [call EXCEPT ![c].user = f, ![c].next = n, ![c].pc = to]
    BY DEF Intercepted
  <1> HIDE DEF n, to
  <1>2. Moves(c, {"user", "next", "pc"}) /\ call'[c].user = f /\ call'[c].next = n /\ call'[c].pc = to
    BY Zenon, <1>1 DEF Moves, Shape, CallFields
  <1> QED BY <1>2 DEF n, to
-----------------------------------------------------------------------------
(* The steps, as far as the invariants tell them apart *)

Base == BootOk /\ Shape /\ Controlled

\* The lines of a step: through sound frames with a logger; those inside
\* CoreRequestContextMiddleware with the trace id of the request.
Told(c) ==
    \A l \in line' : \E g, severity, inside :
        /\ l = Line(c, g, severity, inside)
        /\ Sound(kind, g) /\ HasLogger(g.ctx) /\ shared' = shared
        /\ inside /\ Rest(c) =>
             Inside(c) /\ Traced(g.own) \in {Traced(call[c].core.own), Traced(call[c].user.own)}

\* The handler has done something with its context.
Worked(c) ==
    /\ call[c].pc = "handler" /\ Moves(c, {"user", "ops", "seen"}) /\ crashed' = crashed
    /\ Sound(kind, call'[c].user)
    /\ HasLogger(call[c].user.ctx) => HasLogger(call'[c].user.ctx)
    /\ call'[c].user.id = call[c].user.id
    /\ Traced(call'[c].user.own) = Traced(call[c].user.own)
    /\ \/ /\ shared' = shared /\ askers' = askers
          /\ call'[c].user.asked = call[c].user.asked
          /\ HasLogger(call'[c].user.ctx) <=> HasLogger(call[c].user.ctx)
       \/ /\ askers' = askers \cup {c} /\ HasLogger(call'[c].user.ctx)
          /\ kind = "logrus" => shared' = call'[c].user.asked
    /\ \/ ids' = ids /\ call'[c].seen = call[c].seen
       \/ \E id : GetTraceIDFromContext(call[c].user, id) /\ call'[c].seen = call[c].seen \cup {id}

\* A REST request turns back, on a return or a panic of its handler, or goes on outward.
Leaves(c) ==
    /\ call[c].pc \in {"handler", "unwind", "flush"} /\ Rest(c)
    /\ Moves(c, {"pc", "panicked"}) /\ call'[c].pc \in {"unwind", "flush", "exit"}
    /\ UNCHANGED <<shared, askers, ids, crashed>>

Ends(c) == Over(c) /\ InFlight(c) /\ UNCHANGED <<shared, askers, ids, crashed>>

\* The process dies, and why
Crashes(c) ==
    /\ UNCHANGED <<call, shared, askers, ids>>
    /\ call[c].req.proto = "grpc" /\ InFlight(c)
    /\ \E why : /\ crashed' = {[by |-> c, why |-> why]}
                /\ \/ why = "application"
                   \/ why \in {"noLogger", "rule"} /\ options = "override"
                   \/ why = "userInterceptor" /\ options \in {"legacy", "override"}

\* What an application does with its context, one operation at a time
LEMMA AppEffect ==
    ASSUME Base, NEW c \in Calls, App(c)
    PROVE  /\ UNCHANGED processVars /\ crashed = {} /\ call[c].pc = "handler" /\ Told(c)
           /\ Worked(c) \/ Leaves(c) \/ (Ends(c) /\ call[c].served) \/ Crashes(c)
  <1> DEFINE f == call[c].user
  <1>1. /\ Shape /\ kind \in Kinds /\ Sound(kind, f)
        /\ call[c].req \in Requests \/ call[c].pc = "idle"
        /\ call[c].pc = "handler" /\ call[c].req.proto = "grpc" => call[c].served
        /\ call[c].pc = "handler" /\ options # "override" => HasLogger(f.ctx)
        /\ call[c].pc = "handler" /\ Rest(c) => HasLogger(f.ctx)
    BY Zenon DEF Base, Controlled, Placed, Equipped, BootOk, InFlight
  <1>2. UNCHANGED processVars /\ crashed = {} /\ call[c].pc = "handler"
    BY Zenon DEF App, AppLogs, AppWithLevel, AppWithStr, AppNativeWith, AppCallsDownstream, AppGetsTraceId,
           AppReturns, AppPanics, Op, At, Panic, Crash
  <1>3. InFlight(c) /\ (Rest(c) \/ call[c].req.proto = "grpc") /\ ~(Rest(c) /\ call[c].req.proto = "grpc")
        /\ (Rest(c) => Inside(c))
    BY <1>1, <1>2, CallersAssumption DEF Sendable, InFlight, Rest, Inside
  <1>4. ASSUME NEW why, Panic(c, why), UNCHANGED <<shared, askers, ids>>,
               why = "application" \/ (why = "noLogger" /\ ~HasLogger(f.ctx))
        PROVE  Told(c) /\ (Leaves(c) \/ Crashes(c))
    <2>1. line' = {}
      BY <1>4 DEF Panic, Crash, Silent
    <2>2. CASE Rest(c)
      <3>1. Moves(c, {"pc", "panicked"}) /\ call'[c].pc = "unwind" /\ crashed' = crashed
        BY Zenon, <1>1, <1>4, <2>2, ControlEffect DEF Panic
      <3> QED BY <1>2, <1>4, <2>1, <2>2, <3>1 DEF Told, Leaves
    <2>3. CASE ~Rest(c)
      <3>1. call' = call /\ crashed' = {[by |-> c, why |-> why]}
        BY <1>4, <2>3 DEF Panic, Crash
      <3>2. why # "application" => options = "override"
        BY Zenon, <1>1, <1>2, <1>4
      <3> QED BY <1>3, <1>4, <2>1, <2>3, <3>1, <3>2 DEF Told, Crashes
    <2> QED BY <2>2, <2>3
  \* A step that keeps the level and the trace id, with a frame g
  <1>5. ASSUME NEW g, call' = Step(c, g), UNCHANGED <<shared, askers, ids, crashed>>,
               Sound(kind, g), HasLogger(g.ctx), HasLogger(f.ctx),
               g.asked = f.asked, g.id = f.id, Traced(g.own) = Traced(f.own)
        PROVE  Worked(c)
    <2>1. Moves(c, {"user", "ops"}) /\ call'[c].user = g
      BY <1>1, <1>5, StepEffect
    <2>2. Moves(c, {"user", "ops", "seen"}) /\ call'[c].seen = call[c].seen
      BY <2>1 DEF Moves, CallFields
    <2> QED BY Zenon, <1>2, <1>5, <2>1, <2>2 DEF Worked
  <1>6. ASSUME NEW level, AppLogs(c, level)
        PROVE  Told(c) /\ (Worked(c) \/ Leaves(c) \/ Crashes(c))
    <2>1. CASE HasLogger(f.ctx)
      <3>1. /\ line' = {Line(c, f, level, TRUE)} /\ call' = Step(c, f)
            /\ UNCHANGED <<shared, askers, ids, crashed>>
        BY Zenon, <1>6, <2>1 DEF AppLogs, Log
      <3>2. Worked(c)
        BY <1>1, <1>5, <2>1, <3>1
      <3> QED BY Zenon, <1>1, <1>3, <2>1, <3>1, <3>2 DEF Told
    <2>2. CASE ~HasLogger(f.ctx)
      BY Zenon, <1>4, <1>6, <2>2 DEF AppLogs
    <2> QED BY Zenon, <2>1, <2>2
  <1>7. ASSUME AppWithStr(c)
        PROVE  Told(c) /\ (Worked(c) \/ Leaves(c) \/ Crashes(c))
    <2>1. CASE HasLogger(f.ctx)
      <3> DEFINE g == Derive(f, "app", c)
      <3>1. line' = {} /\ call' = Step(c, g) /\ UNCHANGED <<shared, askers, ids, crashed>>
        BY Zenon, <1>7, <2>1 DEF AppWithStr, Silent
      <3>2. /\ Sound(kind, g) /\ HasLogger(g.ctx) /\ g.asked = f.asked /\ g.id = f.id
            /\ Traced(g.own) = Traced(f.own)
        BY <1>1, <2>1, Derives
      <3> HIDE DEF g
      <3>3. Worked(c)
        BY <1>5, <2>1, <3>1, <3>2
      <3> QED BY <3>1, <3>3 DEF Told
    <2>2. CASE ~HasLogger(f.ctx)
      BY <1>4, <1>7, <2>2 DEF AppWithStr
    <2> QED BY <2>1, <2>2
  <1>8. ASSUME NEW level \in Levels, AppWithLevel(c, level)
        PROVE  Told(c) /\ (Worked(c) \/ Leaves(c) \/ Crashes(c))
    <2>1. CASE HasLogger(f.ctx)
      <3> DEFINE g == [f EXCEPT !.ctx = PutLogger(kind, @, WithLevel(kind, GetLogger(f.ctx), level)), !.asked = level]
      <3>1. /\ line' = {} /\ call' = Step(c, g) /\ ids' = ids /\ crashed' = crashed
            /\ shared' = SharedLevel(kind, level, shared) /\ askers' = askers \cup {c}
        BY Zenon, <1>8, <2>1 DEF AppWithLevel, Silent
      <3>2. Sound(kind, g) /\ HasLogger(g.ctx) /\ g.asked = level /\ g.id = f.id /\ g.own = f.own
        BY Zenon, <1>1, <2>1, Relevels
      <3> HIDE DEF g
      <3>3. Moves(c, {"user", "ops"}) /\ call'[c].user = g
        BY <1>1, <3>1, StepEffect
      <3>4. Moves(c, {"user", "ops", "seen"}) /\ call'[c].seen = call[c].seen
        BY <3>3 DEF Moves, CallFields
      <3>5. kind = "logrus" => shared' = level
        BY Zenon, <3>1 DEF SharedLevel
      <3>6. Worked(c)
        BY Zenon, <1>2, <3>1, <3>2, <3>3, <3>4, <3>5 DEF Worked
      <3> QED BY <3>1, <3>6 DEF Told
    <2>2. CASE ~HasLogger(f.ctx)
      BY Zenon, <1>4, <1>8, <2>2 DEF AppWithLevel
    <2> QED BY Zenon, <2>1, <2>2
  <1>9. ASSUME AppNativeWith(c)
        PROVE  Told(c) /\ Worked(c)
    <2> DEFINE g == [f EXCEPT !.ctx = NativeWith(@, "native", c), !.own = Merge(@, {<<"native", c>>})]
    <2>1. /\ line' = {} /\ call' = Step(c, g) /\ UNCHANGED <<shared, askers, ids, crashed>>
          /\ kind # "logrus" /\ HasLogger(f.ctx)
      BY Zenon, <1>9 DEF AppNativeWith, Silent
    <2>2. /\ Sound(kind, g) /\ HasLogger(g.ctx) /\ g.asked = f.asked /\ g.id = f.id
          /\ Traced(g.own) = Traced(f.own)
      BY ZenonT(40), <1>1, <2>1, NativeAdds
    <2> HIDE DEF g
    <2>3. Worked(c)
      BY <1>5, <2>1, <2>2
    <2> QED BY <2>1, <2>3 DEF Told
  <1>10. ASSUME AppCallsDownstream(c)
         PROVE  Told(c) /\ (Worked(c) \/ Leaves(c) \/ Crashes(c))
    <2>1. CASE HasLogger(f.ctx)
      <3> DEFINE g1 == Derive(f, "Downstream", "d")
                 g2 == Derive(g1, "remote", c)
                 g3 == Derive(g2, "status", "s")
                 g4 == Derive(g2, "func", "FlushLog")
      <3>1. /\ line' \subseteq {Line(c, g3, "info", TRUE), Line(c, g4, "debug", TRUE)}
            /\ call' = Step(c, f) /\ UNCHANGED <<shared, askers, ids, crashed>>
        BY Zenon, <1>10, <2>1 DEF AppCallsDownstream, InitFieldsFromRequest
      <3>2. Sound(kind, g1) /\ HasLogger(g1.ctx) /\ Traced(g1.own) = Traced(f.own)
        BY <1>1, <2>1, Derives
      <3> HIDE DEF g1
      <3>3. Sound(kind, g2) /\ HasLogger(g2.ctx) /\ Traced(g2.own) = Traced(f.own)
        BY <1>1, <3>2, Derives
      <3> HIDE DEF g2
      <3>4. Sound(kind, g3) /\ HasLogger(g3.ctx) /\ Traced(g3.own) = Traced(f.own)
        BY <1>1, <3>3, Derives
      <3>5. Sound(kind, g4) /\ HasLogger(g4.ctx) /\ Traced(g4.own) = Traced(f.own)
        BY SMTT(30), <1>1, <3>3, Derives
      <3> HIDE DEF g3, g4
      <3>6. Told(c)
        BY Zenon, <1>3, <3>1, <3>4, <3>5 DEF Told
      <3>7. Worked(c)
        BY <1>1, <1>5, <2>1, <3>1
      <3> QED BY <3>6, <3>7
    <2>2. CASE ~HasLogger(f.ctx)
      BY <1>4, <1>10, <2>2 DEF AppCallsDownstream
    <2> QED BY <2>1, <2>2
  <1>11. ASSUME AppGetsTraceId(c)
         PROVE  Told(c) /\ Worked(c)
    <2>1. PICK id \in TraceIds :
            /\ GetTraceIDFromContext(f, id)
            /\ call' = [Step(c, f) EXCEPT ![c].seen = @ \cup {id}]
      BY Zenon, <1>11 DEF AppGetsTraceId
    <2>2. line' = {} /\ UNCHANGED <<shared, askers, crashed>>
      BY <1>11 DEF AppGetsTraceId, Silent
    <2>3. Moves(c, {"user", "ops", "seen"}) /\ call'[c].user = f /\ call'[c].seen = call[c].seen \cup {id}
      BY <1>1, <2>1, StepEffect
    <2> QED BY <1>1, <1>2, <2>1, <2>2, <2>3 DEF Told, Worked
  <1>12. ASSUME AppReturns(c)
         PROVE  Told(c) /\ (Leaves(c) \/ (Ends(c) /\ call[c].served))
    <2>1. line' = {} /\ UNCHANGED <<shared, askers, ids, crashed>>
      BY Zenon, <1>12 DEF AppReturns, Silent
    <2>2. CASE Rest(c)
      <3>1. Moves(c, {"pc"}) /\ call'[c].pc = "unwind"
        BY Zenon, <1>1, <1>12, <2>2, ControlEffect DEF AppReturns
      <3>2. Moves(c, {"pc", "panicked"})
        BY <3>1 DEF Moves, CallFields
      <3> QED BY Zenon, <1>2, <2>1, <2>2, <3>1, <3>2 DEF Told, Leaves
    <2>3. CASE ~Rest(c)
      <3>1. Over(c)
        BY <1>1, <1>12, <2>3, DoneEffect DEF AppReturns
      <3> QED BY <1>1, <1>2, <1>3, <2>1, <2>3, <3>1 DEF Told, Ends
    <2> QED BY <2>2, <2>3
  <1>13. ASSUME AppPanics(c)
         PROVE  Told(c) /\ (Leaves(c) \/ Crashes(c))
    BY <1>4, <1>13 DEF AppPanics
  <1> QED BY <1>2, <1>6, <1>7, <1>8, <1>9, <1>10, <1>11, <1>12, <1>13 DEF App
Tagged(c) ==
    /\ call[c].pc = "trace" /\ Moves(c, {"pc", "user"}) /\ call'[c].pc = "core"
    /\ UNCHANGED <<shared, askers, crashed>>
    /\ \E id : /\ call'[c].user = [call[c].user EXCEPT !.id = id]
               /\ \/ id = call[c].req.id /\ id # NoId /\ ids' = ids
                  \/ call[c].req.id = NoId /\ ids < MaxIds /\ id = ids + 1 /\ ids' = ids + 1

LetIn(c) ==
    /\ call[c].pc = "core" /\ Moves(c, {"pc", "core", "user"}) /\ call'[c].pc = "handler"
    /\ call'[c].core = call'[c].user
    /\ UNCHANGED <<shared, askers, crashed>>
    /\ Sound(kind, call'[c].user) /\ HasLogger(call'[c].user.ctx)
    /\ call'[c].user.id = call[c].user.id /\ call'[c].user.asked = call[c].user.asked
    /\ \E id : GetTraceIDFromContext(call[c].user, id) /\ Traced(call'[c].user.own) = {<<"traceid", id>>}

\* The timeout page is out; the handler does not notice.
Late(c) == InFlight(c) /\ Rest(c) /\ Moves(c, {"late"}) /\ UNCHANGED <<shared, askers, ids, crashed>>

\* What the middleware does on the way in and out
LEMMA MiddlewareEffect ==
    ASSUME Base, NEW c \in Calls, Middleware(c)
    PROVE  /\ UNCHANGED processVars /\ crashed = {} /\ Told(c)
           /\ Tagged(c) \/ LetIn(c) \/ Leaves(c) \/ (Ends(c) /\ Rest(c)) \/ Late(c)
  <1>1. /\ Shape /\ kind \in Kinds
        /\ \A d \in Calls : DOMAIN call[d].user = FrameFields
    BY Zenon DEF Base, Controlled, Equipped, BootOk, Sound, Carries
  <1>2. UNCHANGED processVars /\ crashed = {}
    BY Zenon DEF Middleware, TraceabilityMiddleware, CoreRequestContextMiddleware, RequestTimerLog, FlushLog,
           Recoverer, Timeout, At
  <1>3. Placed(c) /\ Equipped(c) /\ Sound(kind, boot) /\ HasLogger(boot.ctx)
    BY Zenon DEF Base, Controlled, BootOk
  <1>4. ASSUME InFlight(c), Rest(c) PROVE Sound(kind, call[c].outer) /\ HasLogger(call[c].outer.ctx)
    BY Zenon, <1>3, <1>4 DEF Equipped
  <1>5. ASSUME NEW key, NEW value, key # "traceid", Inside(c)
        PROVE  LET g == Derive(Derive(call[c].core, "remote", c), key, value) IN
               Sound(kind, g) /\ HasLogger(g.ctx) /\ Traced(g.own) = Traced(call[c].core.own)
    <2> DEFINE g1 == Derive(call[c].core, "remote", c)
               g2 == Derive(g1, key, value)
    <2>1. Sound(kind, g1) /\ HasLogger(g1.ctx) /\ Traced(g1.own) = Traced(call[c].core.own)
      BY SMTT(30), <1>1, <1>3, <1>5, Derives DEF Equipped
    <2> HIDE DEF g1
    <2>2. Sound(kind, g2) /\ HasLogger(g2.ctx) /\ Traced(g2.own) = Traced(g1.own)
      BY SMTT(30), <1>1, <1>5, <2>1, Derives
    <2> QED BY Zenon, <2>1, <2>2 DEF g1
  <1>6. CASE TraceabilityMiddleware(c)
    <2>1. call[c].pc = "trace" /\ UNCHANGED <<shared, askers, crashed>>
      BY <1>6 DEF TraceabilityMiddleware, At
    <2>2. InFlight(c) /\ Rest(c)
      BY <1>3, <2>1 DEF Placed, InFlight, Rest
    <2>3. PICK id : /\ Moves(c, {"pc", "user"}) /\ call'[c].pc = "core"
                    /\ call'[c].user = [call[c].user EXCEPT !.id = id]
                    /\ \/ id = call[c].req.id /\ id # NoId /\ ids' = ids /\ line' = {}
                       \/ /\ call[c].req.id = NoId /\ ids < MaxIds /\ id = ids + 1 /\ ids' = ids + 1
                          /\ line' = {Line(c, Derive(call[c].outer, "remote", c), "info", FALSE)}
      BY Zenon, <1>1, <1>6, InwardEffect
    <2>4. Tagged(c)
      BY Zenon, <2>1, <2>3 DEF Tagged
    <2> DEFINE g == Derive(call[c].outer, "remote", c)
    <2>5. Sound(kind, g) /\ HasLogger(g.ctx)
      BY <1>1, <1>4, <2>2, Derives
    <2>6. line' \subseteq {Line(c, g, "info", FALSE)}
      BY Zenon, <2>3
    <2> HIDE DEF g
    <2> QED BY Zenon, <1>2, <2>1, <2>4, <2>5, <2>6 DEF Told
  <1>7. CASE CoreRequestContextMiddleware(c)
    <2>1. call[c].pc = "core" /\ UNCHANGED <<shared, askers, crashed>> /\ line' = {}
      BY <1>7 DEF CoreRequestContextMiddleware, At, Silent
    <2>2. Sound(kind, call[c].user) /\ HasLogger(call[c].user.ctx)
      BY <1>3, <2>1 DEF Placed, Equipped, InFlight
    <2>3. PICK id : /\ Moves(c, {"pc", "core", "user"}) /\ call'[c].pc = "handler"
                    /\ GetTraceIDFromContext(call[c].user, id)
                    /\ call'[c].core = Derive(call[c].user, "traceid", id)
                    /\ call'[c].user = Derive(call[c].user, "traceid", id)
      BY Zenon, <1>1, <1>7, InwardEffect
    <2> DEFINE g == Derive(call[c].user, "traceid", id)
    <2>4. /\ Sound(kind, g) /\ HasLogger(g.ctx) /\ g.asked = call[c].user.asked /\ g.id = call[c].user.id
          /\ Traced(g.own) = {<<"traceid", id>>}
      BY <1>1, <2>2, Derives
    <2>5. call'[c].core = g /\ call'[c].user = g
      BY <2>3
    <2> HIDE DEF g
    <2>6. LetIn(c)
      BY <2>1, <2>3, <2>4, <2>5 DEF LetIn
    <2> QED BY <1>2, <2>1, <2>6 DEF Told
  <1>8. CASE RequestTimerLog(c)
    <2>1. /\ call[c].pc = "unwind" /\ UNCHANGED <<shared, askers, ids, crashed>>
          /\ call' = [call EXCEPT ![c].pc = IF payload THEN "flush" ELSE "exit"]
      BY <1>8 DEF RequestTimerLog, At
    <2>2. Rest(c) /\ Inside(c)
      BY <1>3, <2>1 DEF Placed, Inside
    <2>3. Moves(c, {"pc"}) /\ call'[c].pc \in {"flush", "exit"}
      BY Zenon, <1>1, <2>1, ControlEffect
    <2>4. Moves(c, {"pc", "panicked"})
      BY <2>3 DEF Moves, CallFields
    <2>5. Leaves(c)
      BY <2>1, <2>2, <2>3, <2>4 DEF Leaves
    <2> DEFINE g == Derive(Derive(call[c].core, "remote", c), "status", "s")
    <2>6. \E severity : line' = {Line(c, g, severity, TRUE)}
      BY Zenon, <1>8 DEF RequestTimerLog, Log, InitFieldsFromRequest
    <2>7. Sound(kind, g) /\ HasLogger(g.ctx) /\ Traced(g.own) = Traced(call[c].core.own)
      BY <1>5, <2>2
    <2> HIDE DEF g
    <2> QED BY Zenon, <1>2, <2>1, <2>2, <2>5, <2>6, <2>7 DEF Told
  <1>9. CASE FlushLog(c)
    <2>1. /\ call[c].pc = "flush" /\ UNCHANGED <<shared, askers, ids, crashed>>
          /\ call' = [call EXCEPT ![c].pc = "exit"]
      BY <1>9 DEF FlushLog, At
    <2>2. Rest(c) /\ Inside(c)
      BY <1>3, <2>1 DEF Placed, Inside
    <2>3. Moves(c, {"pc"}) /\ call'[c].pc = "exit"
      BY Zenon, <1>1, <2>1, ControlEffect
    <2>4. Moves(c, {"pc", "panicked"})
      BY <2>3 DEF Moves, CallFields
    <2>5. Leaves(c)
      BY <2>1, <2>2, <2>3, <2>4 DEF Leaves
    <2> DEFINE g == Derive(Derive(call[c].core, "remote", c), "func", "FlushLog")
    <2>6. line' = {Line(c, g, "debug", TRUE)}
      BY <1>9 DEF FlushLog, Log, InitFieldsFromRequest
    <2>7. Sound(kind, g) /\ HasLogger(g.ctx) /\ Traced(g.own) = Traced(call[c].core.own)
      BY <1>5, <2>2
    <2> HIDE DEF g
    <2> QED BY Zenon, <1>2, <2>1, <2>2, <2>5, <2>6, <2>7 DEF Told
  <1>10. CASE Recoverer(c)
    <2>1. /\ call[c].pc = "exit" /\ UNCHANGED <<shared, askers, ids, crashed>>
          /\ line' \subseteq {Line(c, call[c].outer, "error", FALSE)} /\ call' = Done(c, None)
      BY Zenon, <1>10 DEF Recoverer, At, Log, Silent
    <2>2. Rest(c) /\ InFlight(c)
      BY <1>3, <2>1 DEF Placed, InFlight
    <2>3. Ends(c)
      BY <1>1, <2>1, <2>2, DoneEffect DEF Ends
    <2> QED BY Zenon, <1>2, <1>4, <2>1, <2>2, <2>3 DEF Told
  <1>11. CASE Timeout(c)
    <2>1. /\ InFlight(c) /\ Rest(c) /\ UNCHANGED <<shared, askers, ids, crashed>>
          /\ line' = {Line(c, call[c].outer, "error", FALSE)} /\ call' = [call EXCEPT ![c].late = TRUE]
      BY <1>11 DEF Timeout, Log, InFlight
    <2>2. Late(c)
      BY Zenon, <1>1, <2>1, ControlEffect DEF Late
    <2> QED BY Zenon, <1>2, <1>4, <2>1, <2>2 DEF Told
  <1> QED BY Zenon, <1>6, <1>7, <1>8, <1>9, <1>10, <1>11 DEF Middleware

-----------------------------------------------------------------------------

\* An interceptor has handed the call on.
Handed(c) ==
    /\ call[c].pc = "intercept" /\ Moves(c, {"user", "next", "pc"})
    /\ call'[c].next = call[c].next + 1
    /\ call'[c].pc = IF call[c].next + 1 \in DOMAIN Interceptors(options) THEN "intercept" ELSE "method"
    /\ UNCHANGED <<shared, askers, ids, crashed>>
    /\ Sound(kind, call'[c].user) /\ call'[c].user.id = call[c].user.id
    /\ IF call[c].next >= LoggerAt(options) /\ options # "override"
       THEN /\ HasLogger(call'[c].user.ctx)
            /\ \/ call'[c].user.asked = boot.asked
               \/ HasLogger(call[c].user.ctx) /\ call'[c].user.asked = call[c].user.asked
       ELSE call'[c].user = call[c].user

\* The method goes on to the service's function.
Served(c) ==
    /\ call[c].pc = "method" /\ Moves(c, {"pc", "served"}) /\ call'[c].pc = "handler" /\ call'[c].served
    /\ UNCHANGED <<shared, askers, ids, crashed>>

\* Where the interceptors stand (grpc.go:54-89, serve.go:256-311)
LEMMA InterceptorsAt ==
    ASSUME NEW source \in {"default", "additional", "override", "legacy"},
           NEW n \in DOMAIN Interceptors(source)
    PROVE  /\ n \in Nat
           /\ Interceptors(source)[n] = "logger" => n = LoggerAt(source) /\ source # "override"
           /\ Interceptors(source)[n] = "traceid" => n > LoggerAt(source) /\ source # "override"
           /\ Interceptors(source)[n] = "user" =>
                \/ source = "additional" /\ n > LoggerAt(source)
                \/ source \in {"legacy", "override"} /\ n = 1
           /\ source = "legacy" /\ n = 1 => n + 1 \in DOMAIN Interceptors(source)
           /\ source = "override" => n = 1 /\ n + 1 \notin DOMAIN Interceptors(source)
  <1>1. /\ Interceptors("default") = <<"logger", "traceid">>
        /\ Interceptors("additional") = <<"logger", "traceid", "user">>
        /\ Interceptors("override") = <<"user">>
        /\ Interceptors("legacy") = <<"user", "logger", "traceid">>
    BY DEF Interceptors
  <1>2. CASE source = "default"
    BY <1>1, <1>2 DEF LoggerAt
  <1>3. CASE source = "additional"
    BY <1>1, <1>3 DEF LoggerAt
  <1>4. CASE source = "override"
    BY <1>1, <1>4 DEF LoggerAt
  <1>5. CASE source = "legacy"
    BY <1>1, <1>5 DEF LoggerAt
  <1> QED BY <1>2, <1>3, <1>4, <1>5
\* What the interceptors and the generated method do, up to the service's function
LEMMA GrpcEffect ==
    ASSUME Base, NEW c \in Calls, Grpc(c)
    PROVE  /\ UNCHANGED processVars /\ crashed = {} /\ Told(c)
           /\ Handed(c) \/ Served(c) \/ (Ends(c) /\ call[c].pc = "method") \/ Crashes(c)
  <1> DEFINE f == call[c].user
             n == call[c].next
  <1>1. Shape /\ BootOk /\ kind \in Kinds /\ options \in {"default", "additional", "override", "legacy"}
    BY Zenon DEF Base, BootOk
  <1>2. UNCHANGED processVars /\ crashed = {}
    BY Zenon DEF Grpc, LoggerInterceptor, TraceidLogInterceptor, UserInterceptor, GrpcMethod, Intercepting, At
  <1>3. Placed(c) /\ Equipped(c) /\ Sound(kind, f)
    BY DEF Base, Controlled, Equipped
  <1>4. ASSUME call[c].pc \in {"intercept", "method"}
        PROVE  call[c].req.proto = "grpc" /\ ~Rest(c) /\ InFlight(c)
    BY <1>3, <1>4 DEF Placed, Rest, InFlight
  <1>5. ASSUME NEW g, Intercepted(c, g), call[c].pc = "intercept", UNCHANGED <<shared, askers, ids, crashed>>,
               Sound(kind, g), g.id = f.id,
               IF n >= LoggerAt(options) /\ options # "override"
               THEN HasLogger(g.ctx) /\ (g.asked = boot.asked \/ (HasLogger(f.ctx) /\ g.asked = f.asked))
               ELSE g = f
        PROVE  Handed(c)
    BY <1>1, <1>5, InterceptEffect DEF Handed
  <1>6. ASSUME call[c].pc = "intercept"
        PROVE  n \in DOMAIN Interceptors(options) /\ n \in Nat /\ LoggerAt(options) \in Nat
    BY <1>1, <1>3, <1>6, InterceptorsAt DEF Placed, LoggerAt
  <1>0. ASSUME NEW severity, HasLogger(f.ctx), line' = {Line(c, f, severity, TRUE)}, shared' = shared, ~Rest(c)
        PROVE  Told(c)
    <2> SUFFICES ASSUME NEW l \in line'
                 PROVE  l = Line(c, f, severity, TRUE)
      BY Zenon, <1>0, <1>3 DEF Told
    <2> QED BY Zenon, <1>0
  <1>7. CASE LoggerInterceptor(c)
    <2> DEFINE g == [f EXCEPT !.ctx = PutLogger(kind, @, GetLogger(boot.ctx)),
                              !.own = Merge(@, boot.own), !.asked = boot.asked]
    <2>1. /\ call[c].pc = "intercept" /\ Intercepted(c, g) /\ line' = {}
          /\ UNCHANGED <<shared, askers, ids, crashed>> /\ Interceptors(options)[n] = "logger"
      BY <1>7 DEF LoggerInterceptor, Intercepting, At, Silent
    <2>2. n = LoggerAt(options) /\ options # "override" /\ f = NoFrame
      BY <1>1, <1>3, <1>6, <2>1, InterceptorsAt DEF Equipped
    <2>3. Sound(kind, g) /\ HasLogger(g.ctx) /\ g.asked = boot.asked /\ g.id = NoId
      BY <1>1, <2>2, PutsBoot
    <2>4. f.id = NoId
      BY <1>1, <2>2, Nothing
    <2> HIDE DEF g
    <2>5. Handed(c)
      BY SMTT(30), <1>5, <1>6, <2>1, <2>2, <2>3, <2>4
    <2> QED BY <1>2, <2>1, <2>5 DEF Told
  <1>8. CASE TraceidLogInterceptor(c)
    <2>1. call[c].pc = "intercept" /\ UNCHANGED <<shared, askers, ids>> /\ Interceptors(options)[n] = "traceid"
      BY Zenon, <1>8 DEF TraceidLogInterceptor, Intercepting, At
    <2>2. n > LoggerAt(options) /\ options # "override" /\ HasLogger(f.ctx)
      BY SMTT(30), <1>1, <1>3, <1>6, <2>1, InterceptorsAt DEF Equipped
    <2> DEFINE g == Derive(f, "traceid", LiteralId)
    <2>3. Intercepted(c, g) /\ line' = {} /\ crashed' = crashed
      BY Zenon, <1>8, <2>2 DEF TraceidLogInterceptor, Silent
    <2>4. Sound(kind, g) /\ HasLogger(g.ctx) /\ g.asked = f.asked /\ g.id = f.id
      BY <1>1, <1>3, <2>2, Derives
    <2> HIDE DEF g
    <2>5. Handed(c)
      BY SMTT(30), <1>5, <1>6, <2>1, <2>2, <2>3, <2>4
    <2> QED BY Zenon, <1>2, <2>3, <2>5 DEF Told
  <1>9. CASE UserInterceptor(c)
    <2>1. call[c].pc = "intercept" /\ UNCHANGED <<shared, askers, ids>> /\ Interceptors(options)[n] = "user"
      BY <1>9 DEF UserInterceptor, Intercepting, At
    <2>2. \/ options = "additional" /\ n > LoggerAt(options) /\ HasLogger(f.ctx)
          \/ options = "legacy" /\ n = 1
          \/ options = "override"
      BY <1>1, <1>3, <1>6, <2>1, InterceptorsAt DEF Equipped
    <2>3. CASE Intercepted(c, f) /\ crashed' = crashed
      <3>1. IF n >= LoggerAt(options) /\ options # "override"
            THEN HasLogger(f.ctx) /\ (f.asked = boot.asked \/ (HasLogger(f.ctx) /\ f.asked = f.asked))
            ELSE f = f
        BY SMTT(30), <1>6, <2>1, <2>2 DEF LoggerAt
      <3>2. Handed(c)
        BY Zenon, <1>3, <1>5, <2>1, <2>3, <3>1
      <3>3. line' = {} \/ (HasLogger(f.ctx) /\ line' = {Line(c, f, "info", TRUE)})
        BY Zenon, <1>9, <2>3 DEF UserInterceptor, Silent, Log, Crash
      <3>4. Told(c)
        <4>1. CASE line' = {}
          BY <4>1 DEF Told
        <4>2. CASE HasLogger(f.ctx) /\ line' = {Line(c, f, "info", TRUE)}
          BY Zenon, <1>0, <1>4, <2>1, <4>2
        <4> QED BY Zenon, <3>3, <4>1, <4>2
      <3> QED BY <1>2, <3>2, <3>4
    <2>4. CASE ~HasLogger(f.ctx) /\ Crash(c, "userInterceptor")
      <3>1. options \in {"legacy", "override"}
        BY <2>2, <2>4
      <3>2. call' = call /\ crashed' = {[by |-> c, why |-> "userInterceptor"]} /\ line' = {}
        BY Zenon, <2>4 DEF Crash, Silent
      <3>3. Crashes(c)
        BY Zenon, <1>4, <2>1, <3>1, <3>2 DEF Crashes
      <3> QED BY <1>2, <3>2, <3>3 DEF Told
    <2> QED BY Zenon, <1>9, <2>3, <2>4 DEF UserInterceptor
  <1>10. CASE GrpcMethod(c)
    <2>1. call[c].pc = "method" /\ UNCHANGED <<shared, askers, ids>>
      BY Zenon, <1>10 DEF GrpcMethod, At
    <2>2. line' = {} \/ (HasLogger(f.ctx) /\ line' = {Line(c, f, "debug", TRUE)})
      BY Zenon, <1>10 DEF GrpcMethod, Silent, Log, Crash
    <2>3. Told(c)
      <3>1. CASE line' = {}
        BY <3>1 DEF Told
      <3>2. CASE HasLogger(f.ctx) /\ line' = {Line(c, f, "debug", TRUE)}
        BY Zenon, <1>0, <1>4, <2>1, <3>2
      <3> QED BY Zenon, <2>2, <3>1, <3>2
    <2>4. \/ crashed' = crashed /\ call' = Serve(c)
          \/ crashed' = crashed /\ \E code : call' = Done(c, code)
          \/ ~HasLogger(f.ctx) /\ Crash(c, "rule")
      BY Zenon, <1>10 DEF GrpcMethod
    <2>5. CASE crashed' = crashed /\ call' = Serve(c)
      <3>1. Served(c)
        BY Zenon, <1>1, <2>1, <2>5, ControlEffect DEF Served
      <3> QED BY <1>2, <2>3, <3>1
    <2>6. CASE crashed' = crashed /\ \E code : call' = Done(c, code)
      <3>1. Ends(c)
        BY <1>1, <1>4, <2>1, <2>6, DoneEffect DEF Ends
      <3> QED BY <1>2, <2>1, <2>3, <3>1
    <2>7. CASE ~HasLogger(f.ctx) /\ Crash(c, "rule")
      <3>1. options = "override"
        BY <1>3, <2>1, <2>7 DEF Equipped
      <3>2. call' = call /\ crashed' = {[by |-> c, why |-> "rule"]}
        BY Zenon, <2>7 DEF Crash
      <3>3. Crashes(c)
        BY <1>4, <2>1, <3>1, <3>2 DEF Crashes
      <3> QED BY Zenon, <1>2, <2>3, <3>3
    <2> QED BY Zenon, <2>4, <2>5, <2>6, <2>7
  <1> QED BY <1>7, <1>8, <1>9, <1>10 DEF Grpc

\* Arrive, with what it leaves alone
Enters(c) ==
    /\ call[c].pc = "idle" /\ UNCHANGED <<shared, askers, ids, crashed>>
    /\ Moves(c, CallFields)
    /\ \E q \in Requests :
         /\ call'[c].req = q /\ q.proto \in {"public", "admin", "grpc"}
         /\ q.proto = "public" => call'[c].pc = "trace"
         /\ q.proto = "admin" => call'[c].pc = "core"
         /\ q.proto = "grpc" => call'[c].pc = "intercept"
         /\ call'[c].outer = IF q.proto = "grpc" THEN NoFrame ELSE boot
         /\ call'[c].user = IF q.proto = "grpc" THEN NoFrame ELSE boot
         /\ call'[c].core = NoFrame /\ call'[c].next = 1 /\ call'[c].seen = {} /\ ~call'[c].served

StepOf(c) ==
    \/ Enters(c) \/ Tagged(c) \/ LetIn(c) \/ Worked(c) \/ Leaves(c) \/ Late(c)
    \/ Ends(c) \/ Handed(c) \/ Served(c) \/ Crashes(c)

\* Every step is of one of these forms, of one call, and nothing runs after a crash.
LEMMA StepForms ==
    ASSUME Base, Next
    PROVE  /\ UNCHANGED processVars /\ crashed = {}
           /\ \E c \in Calls : StepOf(c) /\ Told(c)
  <1>1. PICK c \in Calls : Arrive(c) \/ App(c) \/ Middleware(c) \/ Grpc(c)
    BY Zenon DEF Next
  <1>2. CASE Arrive(c)
    <2>1. /\ call[c].pc = "idle" /\ UNCHANGED <<shared, askers, ids, crashed>> /\ line' = {}
          /\ UNCHANGED processVars /\ crashed = {}
      BY <1>2 DEF Arrive, At, Silent
    <2>2. Shape
      BY Zenon DEF Base
    <2>3. Enters(c)
      BY Zenon, <1>2, <2>1, <2>2, ArriveEffect DEF Enters
    <2> QED BY <2>1, <2>3 DEF StepOf, Told
  <1>3. CASE App(c)
    BY <1>3, AppEffect DEF StepOf
  <1>4. CASE Middleware(c)
    BY Zenon, <1>4, MiddlewareEffect DEF StepOf
  <1>5. CASE Grpc(c)
    BY <1>5, GrpcEffect DEF StepOf
  <1> QED BY <1>1, <1>2, <1>3, <1>4, <1>5
-----------------------------------------------------------------------------
(* The invariants *)

\* The calls that do not take the step keep what holds of them.
LEMMA Elsewhere ==
    ASSUME Base, UNCHANGED processVars, NEW c \in Calls, NEW changed, Moves(c, changed),
           (Placed(c) /\ Equipped(c))'
    PROVE  Base'
  <1>1. kind' = kind /\ boot' = boot /\ options' = options
    BY DEF processVars
  <1>2. BootOk'
    BY Zenon, <1>1 DEF Base, BootOk
  <1>3. Shape'
    BY DEF Base, Shape, Moves
  <1>4. ASSUME NEW d \in Calls, d # c PROVE (Placed(d) /\ Equipped(d))'
    <2>1. call'[d] = call[d] /\ Placed(d) /\ Equipped(d)
      BY Zenon, <1>4 DEF Moves, Base, Controlled
    <2>2. Placed(d)'
      BY Zenon, <1>1, <2>1 DEF Placed, Rest
    <2>3. Equipped(d)'
      BY Zenon, <1>1, <2>1 DEF Equipped, Rest, InFlight, Inside
    <2> QED BY Zenon, <2>2, <2>3
  <1> QED BY <1>2, <1>3, <1>4 DEF Base, Controlled

\* Every step leaves each call where it belongs, with the loggers it should have.
LEMMA NextBase ==
    ASSUME Base, Next
    PROVE  Base'
  <1>1. PICK c \in Calls : StepOf(c) /\ UNCHANGED processVars
    BY StepForms
  <1>2. kind' = kind /\ boot' = boot /\ options' = options
    BY <1>1 DEF processVars
  <1>3. /\ kind \in Kinds /\ options \in {"default", "additional", "override", "legacy"}
        /\ Sound(kind, boot) /\ HasLogger(boot.ctx)
        /\ Placed(c) /\ Equipped(c) /\ Shape
    BY DEF Base, BootOk, Controlled
  <1>4. Sound(kind, NoFrame)
    BY Zenon, <1>3, Nothing
  <1>5. CASE Enters(c)
    <2>1. PICK q \in Requests :
         /\ call'[c].req = q /\ q.proto \in {"public", "admin", "grpc"}
         /\ q.proto = "public" => call'[c].pc = "trace"
         /\ q.proto = "admin" => call'[c].pc = "core"
         /\ q.proto = "grpc" => call'[c].pc = "intercept"
         /\ call'[c].outer = IF q.proto = "grpc" THEN NoFrame ELSE boot
         /\ call'[c].user = IF q.proto = "grpc" THEN NoFrame ELSE boot
         /\ call'[c].core = NoFrame /\ call'[c].next = 1 /\ call'[c].seen = {} /\ ~call'[c].served
      BY <1>5 DEF Enters
    <2>2. 1 \in DOMAIN Interceptors(options)
      BY SMTT(30), <1>3 DEF Interceptors
    <2>3. Placed(c)'
      BY Zenon, <1>2, <2>1, <2>2 DEF Placed, Rest
    <2>4. Equipped(c)'
      BY SMTT(30), <1>2, <1>3, <1>4, <2>1 DEF Equipped, Rest, InFlight, Inside, LoggerAt
    <2> QED BY Zenon, <1>1, <1>5, <2>3, <2>4, Elsewhere DEF Enters
  <1>6. CASE Tagged(c)
    <2>1. PICK id : call'[c].user = [call[c].user EXCEPT !.id = id]
      BY Zenon, <1>6 DEF Tagged
    <2>2. /\ call[c].pc = "trace" /\ Moves(c, {"pc", "user"}) /\ call'[c].pc = "core"
          /\ call'[c].req = call[c].req /\ call'[c].outer = call[c].outer /\ call'[c].core = call[c].core
      BY <1>6 DEF Tagged, Moves, CallFields
    <2>3. /\ call[c].req \in Requests /\ call[c].req.proto = "public" /\ Rest(c) /\ InFlight(c)
          /\ Sound(kind, call[c].user) /\ HasLogger(call[c].user.ctx)
      BY <1>3, <2>2 DEF Placed, Equipped, Rest, InFlight
    <2>4. /\ DOMAIN call'[c].user = FrameFields /\ call'[c].user.ctx = call[c].user.ctx
          /\ call'[c].user.own = call[c].user.own /\ call'[c].user.asked = call[c].user.asked
      BY <2>1, <2>3 DEF Sound, Carries, FrameFields
    <2>5. Sound(kind, call'[c].user) /\ HasLogger(call'[c].user.ctx)
      BY Zenon, <2>3, <2>4 DEF Sound, Carries, Levelled
    <2>6. Placed(c)'
      BY Zenon, <2>2, <2>3 DEF Placed, Rest
    <2>7. Equipped(c)'
      BY Zenon, <1>2, <1>3, <2>2, <2>3, <2>5 DEF Equipped, Rest, InFlight, Inside
    <2> QED BY Zenon, <1>1, <2>2, <2>6, <2>7, Elsewhere
  <1>7. CASE LetIn(c)
    <2>1. /\ call[c].pc = "core" /\ Moves(c, {"pc", "core", "user"}) /\ call'[c].pc = "handler"
          /\ call'[c].req = call[c].req /\ call'[c].outer = call[c].outer
          /\ call'[c].core = call'[c].user
          /\ Sound(kind, call'[c].user) /\ HasLogger(call'[c].user.ctx)
      BY Zenon, <1>7 DEF LetIn, Moves, CallFields
    <2>2. Rest(c) /\ InFlight(c) /\ call[c].req \in Requests
      BY Zenon, <1>3, <2>1 DEF Placed, InFlight
    <2>3. Placed(c)'
      BY Zenon, <2>1, <2>2 DEF Placed, Rest
    <2>4. Equipped(c)'
      BY Zenon, <1>2, <1>3, <2>1, <2>2 DEF Equipped, Rest, InFlight, Inside
    <2> QED BY Zenon, <1>1, <2>1, <2>3, <2>4, Elsewhere
  <1>8. CASE Worked(c)
    <2>1. /\ call[c].pc = "handler" /\ Moves(c, {"user", "ops", "seen"}) /\ call'[c].pc = "handler"
          /\ call'[c].req = call[c].req /\ call'[c].outer = call[c].outer /\ call'[c].core = call[c].core
          /\ call'[c].served = call[c].served
          /\ Sound(kind, call'[c].user)
          /\ HasLogger(call[c].user.ctx) => HasLogger(call'[c].user.ctx)
      BY Zenon, <1>8 DEF Worked, Moves, CallFields
    <2>2. Placed(c)'
      BY Zenon, <1>3, <2>1 DEF Placed, Rest
    <2>3. Equipped(c)'
      BY Zenon, <1>2, <1>3, <2>1 DEF Equipped, Rest, InFlight, Inside
    <2> QED BY Zenon, <1>1, <2>1, <2>2, <2>3, Elsewhere
  <1>9. CASE Leaves(c)
    <2>1. /\ call[c].pc \in {"handler", "unwind", "flush"} /\ Rest(c)
          /\ Moves(c, {"pc", "panicked"}) /\ call'[c].pc \in {"unwind", "flush", "exit"}
          /\ call'[c].req = call[c].req /\ call'[c].outer = call[c].outer /\ call'[c].core = call[c].core
          /\ call'[c].user = call[c].user
      BY Zenon, <1>9 DEF Leaves, Moves, CallFields
    <2>2. Placed(c)'
      BY Zenon, <1>3, <2>1 DEF Placed, Rest
    <2>3. Equipped(c)'
      BY Zenon, <1>2, <1>3, <2>1 DEF Equipped, Rest, InFlight, Inside
    <2> QED BY Zenon, <1>1, <2>1, <2>2, <2>3, Elsewhere
  <1>10. CASE Late(c)
    <2>1. /\ Moves(c, {"late"}) /\ call'[c].pc = call[c].pc
          /\ call'[c].req = call[c].req /\ call'[c].outer = call[c].outer /\ call'[c].core = call[c].core
          /\ call'[c].user = call[c].user /\ call'[c].next = call[c].next /\ call'[c].served = call[c].served
      BY Zenon, <1>10 DEF Late, Moves, CallFields
    <2>2. Placed(c)'
      BY Zenon, <1>2, <1>3, <2>1 DEF Placed, Rest
    <2>3. Equipped(c)'
      BY Zenon, <1>2, <1>3, <2>1 DEF Equipped, Rest, InFlight, Inside
    <2> QED BY Zenon, <1>1, <2>1, <2>2, <2>3, Elsewhere
  <1>11. CASE Ends(c)
    <2>1. /\ InFlight(c) /\ Moves(c, CallFields \ {"req", "served"}) /\ call'[c].pc = "done"
          /\ call'[c].outer = NoFrame /\ call'[c].core = NoFrame /\ call'[c].user = NoFrame
      BY Zenon, <1>11 DEF Ends, Over
    <2>2. call'[c].req = call[c].req
      BY Zenon, <2>1 DEF Moves, CallFields
    <2>3. Placed(c)'
      BY Zenon, <1>3, <2>1, <2>2 DEF Placed, Rest, InFlight
    <2>4. Equipped(c)'
      BY <1>2, <1>4, <2>1 DEF Equipped, Rest, InFlight, Inside
    <2> QED BY Zenon, <1>1, <2>1, <2>3, <2>4, Elsewhere
  <1>12. CASE Handed(c)
    <2>1. /\ call[c].pc = "intercept" /\ Moves(c, {"user", "next", "pc"})
          /\ call'[c].next = call[c].next + 1
          /\ call'[c].pc = IF call[c].next + 1 \in DOMAIN Interceptors(options) THEN "intercept" ELSE "method"
          /\ call'[c].req = call[c].req /\ call'[c].outer = call[c].outer /\ call'[c].core = call[c].core
          /\ Sound(kind, call'[c].user)
      BY Zenon, <1>12 DEF Handed, Moves, CallFields
    <2>2. call[c].req \in Requests /\ call[c].req.proto = "grpc" /\ call[c].next \in DOMAIN Interceptors(options)
      BY Zenon, <1>3, <2>1 DEF Placed
    <2>3. /\ call[c].next \in Nat /\ LoggerAt(options) \in {1, 2}
          /\ options = "legacy" /\ call[c].next = 1 => call[c].next + 1 \in DOMAIN Interceptors(options)
          /\ options = "override" => call[c].next + 1 \notin DOMAIN Interceptors(options)
      BY Zenon, <1>3, <2>2, InterceptorsAt DEF LoggerAt
    <2>4. call[c].next >= 1
      <3>1. \A s \in {"default", "additional", "override", "legacy"} : 0 \notin DOMAIN Interceptors(s)
        BY SMTT(30) DEF Interceptors
      <3> QED BY <1>3, <2>2, <2>3, <3>1
    <2>5. Placed(c)'
      BY Zenon, <1>2, <2>1, <2>2 DEF Placed, Rest
    <2>6. CASE call[c].next >= LoggerAt(options) /\ options # "override"
      <3>1. HasLogger(call'[c].user.ctx)
        BY Zenon, <1>12, <2>6 DEF Handed
      <3>2. ~(call'[c].next <= LoggerAt(options'))
        BY SMTT(30), <1>2, <2>1, <2>3, <2>6
      <3>3. Equipped(c)'
        BY Zenon, <1>2, <1>3, <2>1, <2>2, <3>1, <3>2 DEF Equipped, Rest, InFlight, Inside
      <3> QED BY Zenon, <1>1, <2>1, <2>5, <3>3, Elsewhere
    <2>7. CASE options # "override" /\ ~(call[c].next >= LoggerAt(options))
      <3>1. call'[c].user = call[c].user
        BY Zenon, <1>12, <2>7 DEF Handed
      <3>2. options = "legacy" /\ call[c].next = 1 /\ LoggerAt(options) = 2
        BY SMTT(30), <2>3, <2>4, <2>7 DEF LoggerAt
      <3>3. call'[c].pc = "intercept" /\ call'[c].user = NoFrame /\ call'[c].next = 2
        BY SMTT(30), <1>3, <2>1, <2>3, <3>1, <3>2 DEF Equipped
      <3>4. Equipped(c)'
        <4>0. 2 <= 2
          OBVIOUS
        <4>1. call'[c].next <= LoggerAt(options')
          BY Zenon, <1>2, <3>2, <3>3, <4>0
        <4>2. Sound(kind', call'[c].outer) /\ Sound(kind', call'[c].core) /\ Sound(kind', call'[c].user)
          BY Zenon, <1>2, <1>3, <2>1 DEF Equipped
        <4>3. ~Rest(c)'
          BY Zenon, <2>1, <2>2 DEF Rest
        <4> QED BY Zenon, <3>3, <4>1, <4>2, <4>3 DEF Equipped, Inside
      <3> QED BY <1>1, <2>1, <2>5, <3>4, Elsewhere
    <2>8. CASE options = "override"
      <3>1. call'[c].pc = "method"
        BY Zenon, <2>1, <2>3, <2>8
      <3>2. Equipped(c)'
        BY Zenon, <1>2, <1>3, <2>1, <2>2, <2>8, <3>1 DEF Equipped, Rest, InFlight, Inside
      <3> QED BY <1>1, <2>1, <2>5, <3>2, Elsewhere
    <2> QED BY Zenon, <2>6, <2>7, <2>8
  <1>13. CASE Served(c)
    <2>1. /\ call[c].pc = "method" /\ Moves(c, {"pc", "served"}) /\ call'[c].pc = "handler" /\ call'[c].served
          /\ call'[c].req = call[c].req /\ call'[c].outer = call[c].outer /\ call'[c].core = call[c].core
          /\ call'[c].user = call[c].user
      BY Zenon, <1>13 DEF Served, Moves, CallFields
    <2>2. call[c].req.proto = "grpc" /\ ~Rest(c)
      BY Zenon, <1>3, <2>1 DEF Placed, Rest
    <2>3. Placed(c)'
      BY Zenon, <1>3, <2>1 DEF Placed, Rest
    <2>4. Equipped(c)'
      BY <1>2, <1>3, <2>1, <2>2 DEF Equipped, Rest, InFlight, Inside
    <2> QED BY Zenon, <1>1, <2>1, <2>3, <2>4, Elsewhere
  <1>14. CASE Crashes(c)
    <2>1. call' = call
      BY <1>14 DEF Crashes
    <2>2. Moves(c, {})
      BY Zenon, <1>3, <2>1 DEF Moves, Shape
    <2>3. Placed(c)'
      BY Zenon, <1>2, <1>3, <2>1 DEF Placed, Rest
    <2>4. Equipped(c)'
      BY <1>2, <1>3, <2>1 DEF Equipped, Rest, InFlight, Inside
    <2> QED BY Zenon, <1>1, <2>2, <2>3, <2>4, Elsewhere
  <1> QED BY Zenon, <1>1, <1>5, <1>6, <1>7, <1>8, <1>9, <1>10, <1>11, <1>12, <1>13, <1>14 DEF StepOf

\* The boot leaves a sound frame, and no call is there yet (serve.go:239-250).
LEMMA InitBase == Init => Base
  <1> SUFFICES ASSUME Init PROVE Base
    OBVIOUS
  <1>1. PICK s \in Setups : /\ kind = s.kind /\ options = s.options
                            /\ boot = BootFrame(s.level)
    BY DEF Init
  <1>2. kind \in Kinds /\ options \in {"default", "additional", "override", "legacy"} /\ s.level \in Levels
    BY <1>1, SetupsAssumption DEF Setup
  <1> DEFINE start == [fields |-> {<<"app", "boot">>}, level |-> "info"]
             lg == WithLevel(kind, start, s.level)
             new == PutLogger(kind, EmptyContext, lg)
  <1>3. /\ DOMAIN lg = {"fields", "level"} /\ lg.fields = {<<"app", "boot">>}
        /\ kind # "logrus" => lg.level = Made(kind, s.level)
    BY Zenon, <1>2, LevelSet DEF WithLevel, Made, Kinds
  <1>4. boot = [ctx |-> new, id |-> NoId, own |-> lg.fields, asked |-> s.level]
    BY Zenon, <1>1 DEF BootFrame, Frame
  <1> HIDE DEF lg
  <1>5. /\ DOMAIN EmptyContext = {"get", "native", "captured"}
        /\ DOMAIN EmptyContext.native = {"fields", "level"} /\ DOMAIN EmptyContext.captured = {"fields", "level"}
    BY Zenon DEF EmptyContext, NoLogger
  <1>6. /\ DOMAIN new = {"get", "native", "captured"}
        /\ DOMAIN new.native = {"fields", "level"} /\ DOMAIN new.captured = {"fields", "level"}
        /\ new.get = IF kind = "logrus" THEN "captured" ELSE "native"
    BY SMTT(30), <1>2, <1>3, <1>5, PutGet
  <1>7. HasLogger(new) /\ GetLogger(new).level = lg.level
    BY <1>2, <1>3, <1>5, PutGet
  <1>8. GetLogger(new).fields = lg.fields
    <2>1. kind = "pkg" => GetLogger(new).fields = Merge(EmptyContext.native.fields, lg.fields)
      BY SMTT(30), <1>2, <1>3, <1>5, PutGet
    <2>2. kind # "pkg" => GetLogger(new).fields = lg.fields
      BY <1>2, <1>3, <1>5, PutGet
    <2>3. EmptyContext.native.fields = {}
      BY Zenon DEF EmptyContext, NoLogger
    <2> HIDE DEF new
    <2> QED BY Zenon, <2>1, <2>2, <2>3, Merges
  <1> HIDE DEF new
  <1>9. /\ DOMAIN boot = FrameFields /\ boot.ctx = new /\ boot.id = NoId /\ boot.own = lg.fields
        /\ boot.asked = s.level
    BY Zenon, <1>4 DEF FrameFields
  <1>10. Sound(kind, boot) /\ HasLogger(boot.ctx)
    BY <1>2, <1>3, <1>6, <1>7, <1>8, <1>9 DEF Sound, Carries, Levelled
  <1>11. Traced({<<"app", "boot">>}) = {}
    BY DEF Traced
  <1>12. BootOk
    BY Zenon, <1>2, <1>3, <1>9, <1>10, <1>11 DEF BootOk
  <1>13. /\ DOMAIN Free = CallFields /\ Free.pc = "idle" /\ Free.req.proto = None
         /\ Free.outer = NoFrame /\ Free.core = NoFrame /\ Free.user = NoFrame
    BY DEF Free, CallFields
  <1>14. DOMAIN call = Calls /\ \A c \in Calls : call[c] = Free
    BY Zenon DEF Init
  <1> HIDE DEF new, start
  <1>15. Shape
    BY <1>13, <1>14 DEF Shape
  <1>16. Sound(kind, NoFrame)
    BY Zenon, <1>2, Nothing
  <1>17. ASSUME NEW c \in Calls PROVE Placed(c) /\ Equipped(c)
    BY <1>13, <1>14, <1>16 DEF Placed, Equipped, Rest, InFlight, Inside, None
  <1> QED BY <1>12, <1>15, <1>17 DEF Base, Controlled

\* A crash is a gRPC call's, and the application's choice.
LEMMA NextCrash ==
    ASSUME Base, OnlyTheAppCrashes, Next
    PROVE  OnlyTheAppCrashes'
  <1>1. PICK c \in Calls : StepOf(c) /\ UNCHANGED processVars /\ crashed = {}
    BY Zenon, StepForms
  <1>2. CASE Crashes(c)
    <2>1. PICK why : /\ crashed' = {[by |-> c, why |-> why]}
                     /\ \/ why = "application"
                        \/ why \in {"noLogger", "rule"} /\ options = "override"
                        \/ why = "userInterceptor" /\ options \in {"legacy", "override"}
      BY Zenon, <1>2 DEF Crashes
    <2>2. call' = call /\ ~Rest(c) /\ options' = options
      BY <1>1, <1>2 DEF Crashes, Rest, processVars
    <2> QED BY <2>1, <2>2 DEF OnlyTheAppCrashes, Rest
  <1>3. CASE ~Crashes(c)
    <2>1. crashed' = {}
      BY Zenon, <1>1, <1>3 DEF StepOf, Enters, Tagged, LetIn, Worked, Leaves, Late, Ends, Handed, Served
    <2> QED BY Zenon, <2>1 DEF OnlyTheAppCrashes
  <1> QED BY <1>2, <1>3

-----------------------------------------------------------------------------

\* The token is one a verifier takes
Refusal(q) ==
    CASE ~q.implemented -> "Unimplemented"
      [] q.implemented /\ GoodToken(q) -> "PermissionDenied"
      [] q.implemented /\ q.header.scheme # "bearer" -> "Unauthenticated"
      [] OTHER -> "Unknown"

\* What MakeGRPCJWTAuthorizationRule decides, and the code a refusal has
\* (jwtclaimsrule.go:38-81, jwtgrpc.go:28-43).
LEMMA Verdict ==
    ASSUME NEW q \in Requests, q.implemented
    PROVE  LET v == grpcRule(q.header, q.granted) IN
           /\ v.ok <=> (GoodToken(q) /\ q.granted)
           /\ ~v.ok => GrpcCode(v) = Refusal(q)
  <1>1. q.header.token.form \in Forms /\ q.granted \in BOOLEAN
    BY CallersAssumption DEF Sendable
  <1> DEFINE token == q.header.token
             auth == Authenticate(token)
             v == grpcRule(q.header, q.granted)
  <1>2. /\ \A x : Ok(x).ok
        /\ \A x : ~Refuse(x).ok /\ Refuse(x).code = x
    BY DEF Ok, Refuse
  <1>3. CASE q.header.scheme # "bearer"
    <2>1. PICK code \in {"NoAuthHeader", "ParseJWT"} : GetBearerFromIncomingContext(q.header) = Refuse(code)
      BY <1>3 DEF GetBearerFromIncomingContext
    <2>2. v = Refuse(code)
      BY <1>2, <2>1 DEF grpcRule
    <2>3. ~v.ok /\ v.code = code
      BY <1>2, <2>2
    <2> HIDE DEF v
    <2>4. GrpcCode(v) = "Unauthenticated"
      BY <2>1, <2>3 DEF GrpcCode
    <2>5. ~GoodToken(q) /\ Refusal(q) = "Unauthenticated"
      BY Zenon, <1>3 DEF GoodToken, Bearer, Refusal
    <2> QED BY <2>3, <2>4, <2>5 DEF v
  <1>4. CASE q.header.scheme = "bearer"
    <2>1. v = authorize(token, q.granted)
      BY Zenon, <1>2, <1>4 DEF grpcRule, GetBearerFromIncomingContext
    <2>2. CASE token.form = "good"
      <3>1. auth = Ok([scope |-> token.scope])
        BY <2>2 DEF Authenticate
      <3>2. auth.ok
        BY <1>2, <3>1
      <3>3. v = IF q.granted THEN auth ELSE Refuse("InsufficientPermissions")
        BY <2>1, <3>2 DEF authorize
      <3>4. GoodToken(q) /\ Refusal(q) = "PermissionDenied"
        BY <1>4, <2>2 DEF GoodToken, Bearer, Refusal
      <3> HIDE DEF auth
      <3>5. CASE q.granted
        BY Zenon, <3>2, <3>3, <3>4, <3>5
      <3>6. CASE ~q.granted
        <4>1. v = Refuse("InsufficientPermissions")
          BY <3>3, <3>6
        <4>2. ~v.ok /\ v.code = "InsufficientPermissions"
          BY <1>2, <4>1
        <4> HIDE DEF v
        <4>3. GrpcCode(v) = "PermissionDenied"
          BY <4>2 DEF GrpcCode
        <4> QED BY <3>4, <3>6, <4>2, <4>3 DEF v
      <3> QED BY <3>5, <3>6
    <2>3. CASE token.form # "good"
      <3>1. PICK code \in {"InvalidJWT", "Unknown", "UntrustedSource", "BadSignature"} : auth = Refuse(code)
        BY <1>1, <2>3 DEF Authenticate, Forms
      <3>2. ~auth.ok /\ auth.code = code
        BY <1>2, <3>1
      <3>3. v = auth
        BY <2>1, <3>2 DEF authorize
      <3>4. ~GoodToken(q) /\ Refusal(q) = "Unknown"
        BY <1>4, <2>3 DEF GoodToken, Bearer, Refusal
      <3> HIDE DEF auth, v
      <3>5. GrpcCode(v) = "Unknown"
        BY <3>1, <3>2, <3>3 DEF GrpcCode
      <3> QED BY Zenon, <3>2, <3>3, <3>4, <3>5 DEF v
    <2> QED BY <2>2, <2>3
  <1> QED BY <1>3, <1>4

\* Nothing is served before the method lets it in.
Unserved == \A c \in Calls : call[c].pc \in {"intercept", "method"} => ~call[c].served

\* The admission of one call
LetInBy(c) ==
    call[c].pc \in {"handler", "done"} /\ call[c].req.proto = "grpc" =>
        /\ call[c].served => call[c].req.implemented
                             /\ (call[c].req.rule = "jwt" => GoodToken(call[c].req) /\ call[c].req.granted)
        /\ ~call[c].served => call[c].code = Refusal(call[c].req)

\* The verdict of the method is what the caller is told or the function is called by.
LEMMA NextAdmitted ==
    ASSUME Base, Unserved, \A c \in Calls : LetInBy(c), Next
    PROVE  Unserved' /\ \A c \in Calls : LetInBy(c)'
  <1>1. PICK c \in Calls : Arrive(c) \/ App(c) \/ Middleware(c) \/ Grpc(c)
    BY DEF Next
  <1>2. Placed(c) /\ Shape /\ LetInBy(c) /\ (call[c].pc \in {"intercept", "method"} => ~call[c].served)
    BY Zenon DEF Base, Controlled, Unserved
  <1>3. ASSUME NEW changed, Moves(c, changed), LetInBy(c)',
               call'[c].pc \in {"intercept", "method"} => ~call'[c].served
        PROVE  Unserved' /\ \A d \in Calls : LetInBy(d)'
    <2>1. ASSUME NEW d \in Calls, d # c
          PROVE  LetInBy(d)' /\ (call'[d].pc \in {"intercept", "method"} => ~call'[d].served)
      BY <1>3, <2>1 DEF Moves, LetInBy, Unserved
    <2> QED BY Zenon, <1>3, <2>1 DEF Unserved
  <1>4. CASE GrpcMethod(c)
    <2> DEFINE q == call[c].req
               v == grpcRule(q.header, q.granted)
    <2>1. call[c].pc = "method" /\ q \in Requests /\ q.proto = "grpc" /\ ~call[c].served
      BY Zenon, <1>2, <1>4 DEF GrpcMethod, At, Placed
    <2>2. q.implemented \in BOOLEAN /\ q.rule \in {None, "alwaysGrant", "jwt"}
      BY Zenon, <2>1, CallersAssumption DEF Sendable
    <2>3. q.implemented => (v.ok <=> (GoodToken(q) /\ q.granted)) /\ (~v.ok => GrpcCode(v) = Refusal(q))
      BY Zenon, <2>1, Verdict
    <2>4. CASE call' = Serve(c)
      <3>1. q.implemented /\ (q.rule = "jwt" => GoodToken(q) /\ q.granted)
        <4>1. Serve(c)[c].pc = "handler"
          BY <1>2 DEF Serve, Shape, CallFields
        <4>2. \A code : Done(c, code)[c].pc = "done"
          BY <1>2 DEF Done, Shape, Free
        <4>3. \A code : call' # Done(c, code)
          BY Zenon, <2>4, <4>1, <4>2
        <4>4. call' # call
          BY Zenon, <2>1, <2>4, <4>1
        <4>5. CASE q.rule \in {None, "alwaysGrant"}
          BY Zenon, <1>4, <4>3, <4>4, <4>5 DEF GrpcMethod, Crash, None
        <4>6. CASE q.rule = "jwt"
          <5> HIDE DEF v
          <5>1. q.implemented /\ call' = (IF v.ok THEN Serve(c) ELSE Done(c, GrpcCode(v)))
            BY Zenon, <1>4, <4>3, <4>4, <4>6 DEF GrpcMethod, Crash, None, v
          <5> QED BY <2>3, <4>3, <5>1
        <4> QED BY <2>2, <4>5, <4>6
      <3>2. Moves(c, {"pc", "served"}) /\ call'[c].pc = "handler" /\ call'[c].served
        BY Zenon, <1>2, <2>4, ControlEffect
      <3>3. call'[c].req = q
        BY <3>2 DEF Moves, CallFields
      <3>4. LetInBy(c)'
        BY <3>1, <3>2, <3>3 DEF LetInBy
      <3> QED BY Zenon, <1>3, <3>2, <3>4
    <2>5. CASE call' # Serve(c) /\ call' # call
      <3>1. call' = Done(c, Refusal(q))
        <4>1. CASE ~q.implemented
          BY Zenon, <1>4, <2>2, <2>5, <4>1 DEF GrpcMethod, Refusal, Crash
        <4>2. CASE q.implemented
          <5> HIDE DEF v
          <5> QED BY Zenon, <1>4, <2>3, <2>5, <4>2 DEF GrpcMethod, Crash, v
        <4> QED BY Zenon, <4>1, <4>2
      <3>2. Over(c) /\ call'[c].code = Refusal(q)
        BY Zenon, <1>2, <3>1, DoneEffect
      <3>3. call'[c].req = q /\ call'[c].served = call[c].served /\ call'[c].pc = "done"
        BY Zenon, <3>2 DEF Over, Moves, CallFields
      <3>4. LetInBy(c)'
        BY Zenon, <2>1, <3>2, <3>3 DEF LetInBy
      <3> QED BY Zenon, <1>3, <3>2, <3>3, <3>4 DEF Over
    <2>6. CASE call' = call
      BY Zenon, <2>6 DEF Unserved, LetInBy
    <2> QED BY Zenon, <2>4, <2>5, <2>6
  <1>5. CASE Arrive(c)
    <2>1. Moves(c, CallFields) /\ call'[c].pc \in {"trace", "core", "intercept"} /\ ~call'[c].served
      BY Zenon, <1>2, <1>5, ArriveEffect
    <2> QED BY Zenon, <1>3, <2>1 DEF LetInBy
  <1>6. CASE App(c)
    <2>1. call[c].pc = "handler" /\ (Worked(c) \/ Leaves(c) \/ (Ends(c) /\ call[c].served) \/ Crashes(c))
      BY Zenon, <1>6, AppEffect
    <2>2. CASE Worked(c)
      <3>1. /\ Moves(c, {"user", "ops", "seen"}) /\ call'[c].pc = call[c].pc /\ call'[c].req = call[c].req
            /\ call'[c].served = call[c].served /\ call'[c].code = call[c].code
        BY Zenon, <2>2 DEF Worked, Moves, CallFields
      <3> QED BY Zenon, <1>2, <1>3, <2>1, <3>1 DEF LetInBy
    <2>3. CASE Leaves(c)
      <3>1. Moves(c, {"pc", "panicked"}) /\ call'[c].pc \in {"unwind", "flush", "exit"}
        BY Zenon, <2>3 DEF Leaves
      <3> QED BY Zenon, <1>3, <3>1 DEF LetInBy
    <2>4. CASE Ends(c) /\ call[c].served
      <3>1. /\ Moves(c, CallFields \ {"req", "served"}) /\ call'[c].pc = "done"
            /\ call'[c].req = call[c].req /\ call'[c].served = call[c].served
        BY Zenon, <2>4 DEF Ends, Over, Moves, CallFields
      <3> QED BY Zenon, <1>2, <1>3, <2>1, <2>4, <3>1 DEF LetInBy
    <2>5. CASE Crashes(c)
      BY Zenon, <2>5 DEF Crashes, Unserved, LetInBy
    <2> QED BY Zenon, <2>1, <2>2, <2>3, <2>4, <2>5
  <1>7. CASE Middleware(c)
    <2>1. Tagged(c) \/ LetIn(c) \/ Leaves(c) \/ (Ends(c) /\ Rest(c)) \/ Late(c)
      BY Zenon, <1>7, MiddlewareEffect
    <2>2. CASE Tagged(c) \/ Leaves(c)
      <3>1. \E changed : Moves(c, changed) /\ call'[c].pc \in {"core", "unwind", "flush", "exit"}
        BY Zenon, <2>2 DEF Tagged, Leaves
      <3> QED BY <1>3, <3>1 DEF LetInBy
    <2>3. CASE LetIn(c)
      <3>1. Moves(c, {"pc", "core", "user"}) /\ call'[c].pc = "handler" /\ call'[c].req = call[c].req /\ Rest(c)
        BY Zenon, <1>2, <2>3 DEF LetIn, Moves, CallFields, Placed
      <3> QED BY Zenon, <1>3, <3>1 DEF LetInBy, Rest
    <2>4. CASE Ends(c) /\ Rest(c)
      <3>1. Moves(c, CallFields \ {"req", "served"}) /\ call'[c].pc = "done" /\ call'[c].req = call[c].req
        BY Zenon, <2>4 DEF Ends, Over, Moves, CallFields
      <3> QED BY Zenon, <1>3, <2>4, <3>1 DEF LetInBy, Rest
    <2>5. CASE Late(c)
      <3>1. /\ Moves(c, {"late"}) /\ call'[c].pc = call[c].pc /\ call'[c].req = call[c].req
            /\ call'[c].served = call[c].served /\ call'[c].code = call[c].code
        BY Zenon, <2>5 DEF Late, Moves, CallFields
      <3> QED BY Zenon, <1>2, <1>3, <3>1 DEF LetInBy
    <2> QED BY Zenon, <2>1, <2>2, <2>3, <2>4, <2>5
  <1>8. CASE Grpc(c) /\ ~GrpcMethod(c)
    <2>1. Handed(c) \/ Crashes(c)
      <3>1. call[c].pc = "intercept"
        BY Zenon, <1>8 DEF Grpc, LoggerInterceptor, TraceidLogInterceptor, UserInterceptor, Intercepting, At
      <3>2. Handed(c) \/ Served(c) \/ (Ends(c) /\ call[c].pc = "method") \/ Crashes(c)
        BY Zenon, <1>8, GrpcEffect
      <3> QED BY Zenon, <3>1, <3>2 DEF Served
    <2>2. CASE Handed(c)
      <3>1. /\ Moves(c, {"user", "next", "pc"}) /\ call'[c].pc \in {"intercept", "method"}
            /\ call'[c].served = call[c].served /\ call[c].pc = "intercept"
        BY Zenon, <2>2 DEF Handed, Moves, CallFields
      <3> QED BY Zenon, <1>2, <1>3, <3>1 DEF LetInBy
    <2>3. CASE Crashes(c)
      BY <2>3 DEF Crashes, Unserved, LetInBy
    <2> QED BY Zenon, <2>1, <2>2, <2>3
  <1> QED BY Zenon, <1>1, <1>4, <1>5, <1>6, <1>7, <1>8
-----------------------------------------------------------------------------
(* Lines: fields and levels *)

\* A line is written from a sound frame (logging.go:164-169, 209-214, 238-245).
LEMMA NextLines ==
    ASSUME Base, Next
    PROVE  LineIsOwn'
  <1>1. PICK c \in Calls : Told(c)
    BY Zenon, StepForms
  <1>2. ASSUME NEW l \in line' PROVE l.fields = l.own
    <2>1. PICK g, severity, inside : l = Line(c, g, severity, inside) /\ Sound(kind, g)
      BY Zenon, <1>1 DEF Told
    <2> QED BY Zenon, <2>1 DEF Line, Sound, Carries
  <1> QED BY <1>2 DEF LineIsOwn

\* WithLevel is the only thing that changes the level a call has, and with logrus the
\* only thing that changes the shared one (logging.go:160-162, 196-207, 247-261).
LEMMA NextShared ==
    ASSUME Base, Shared, Next
    PROVE  Shared'
  <1>1. PICK c \in Calls : StepOf(c)
    BY StepForms
  <1>2. kind' = kind /\ boot' = boot /\ options' = options
    BY Zenon, StepForms DEF processVars
  <1>3. /\ kind \in Kinds /\ HasLogger(boot.ctx) /\ Placed(c) /\ Equipped(c) /\ Shares(c)
        /\ DOMAIN call[c].user = FrameFields
        /\ c \in askers => call[c].pc \in {"handler", "unwind", "flush", "exit", "done"}
    BY Zenon DEF Base, BootOk, Controlled, Shared, Equipped, Sound, Carries
  <1>4. ~HasLogger(NoFrame.ctx) /\ NoFrame.asked = None
    BY Zenon, <1>3, Nothing DEF NoFrame, Frame
  <1> DEFINE out == {"handler", "unwind", "flush", "exit", "done"}
  <1>5. ASSUME NEW changed, Moves(c, changed), shared' = shared, askers' = askers,
               c \in askers => call'[c].pc \in out, Shares(c)'
        PROVE  Shared'
    <2>1. ASSUME NEW d \in Calls, d # c PROVE Shares(d)'
      <3>1. call'[d] = call[d]
        BY Zenon, <1>5, <2>1 DEF Moves
      <3> QED BY Zenon, <1>2, <1>5, <3>1 DEF Shared, Shares
    <2>2. \A d \in askers' : call'[d].pc \in out
      BY Zenon, <1>5 DEF Moves, Shared
    <2> QED BY Zenon, <1>2, <1>5, <2>1, <2>2 DEF Shared
  <1>6. CASE Enters(c)
    <2>1. /\ call[c].pc = "idle" /\ UNCHANGED <<shared, askers>> /\ Moves(c, CallFields)
          /\ call'[c].pc \in {"trace", "core", "intercept"} /\ call'[c].user \in {NoFrame, boot}
      BY Zenon, <1>6 DEF Enters
    <2>2. c \notin askers
      BY Zenon, <1>3, <2>1
    <2>3. Shares(c)'
      BY Zenon, <1>2, <1>3, <1>4, <2>1, <2>2 DEF Shares
    <2> QED BY Zenon, <1>5, <2>1, <2>2, <2>3
  <1>7. CASE Tagged(c)
    <2>1. PICK id : call'[c].user = [call[c].user EXCEPT !.id = id]
      BY Zenon, <1>7 DEF Tagged
    <2>2. /\ call[c].pc = "trace" /\ UNCHANGED <<shared, askers>> /\ Moves(c, {"pc", "user"})
          /\ call'[c].pc = "core"
      BY <1>7 DEF Tagged
    <2>3. call'[c].user.ctx = call[c].user.ctx /\ call'[c].user.asked = call[c].user.asked
      BY <1>3, <2>1 DEF FrameFields
    <2>4. c \notin askers
      BY <1>3, <2>2
    <2>5. Shares(c)'
      BY Zenon, <1>2, <1>3, <2>2, <2>3, <2>4 DEF Shares
    <2> QED BY <1>5, <2>2, <2>4, <2>5
  <1>8. CASE LetIn(c)
    <2>1. /\ call[c].pc = "core" /\ UNCHANGED <<shared, askers>> /\ Moves(c, {"pc", "core", "user"})
          /\ call'[c].pc = "handler" /\ HasLogger(call'[c].user.ctx)
          /\ call'[c].user.asked = call[c].user.asked
      BY Zenon, <1>8 DEF LetIn
    <2>2. c \notin askers /\ HasLogger(call[c].user.ctx)
      BY Zenon, <1>3, <2>1 DEF Placed, Equipped, InFlight
    <2>3. Shares(c)'
      BY Zenon, <1>2, <1>3, <2>1, <2>2 DEF Shares
    <2> QED BY Zenon, <1>5, <2>1, <2>2, <2>3
  <1>9. CASE Worked(c)
    <2>1. call[c].pc = "handler" /\ Moves(c, {"user", "ops", "seen"}) /\ call'[c].pc = call[c].pc
      BY Zenon, <1>9 DEF Worked, Moves, CallFields
    <2>2. CASE /\ shared' = shared /\ askers' = askers
               /\ call'[c].user.asked = call[c].user.asked
               /\ HasLogger(call'[c].user.ctx) <=> HasLogger(call[c].user.ctx)
      <3>1. Shares(c)'
        BY Zenon, <1>2, <1>3, <2>1, <2>2 DEF Shares
      <3> QED BY Zenon, <1>5, <2>1, <2>2, <3>1
    <2>3. CASE /\ askers' = askers \cup {c} /\ HasLogger(call'[c].user.ctx)
               /\ kind = "logrus" => shared' = call'[c].user.asked
      <3>1. Shares(c)'
        BY Zenon, <1>2, <2>1, <2>3 DEF Shares
      <3>2. ASSUME NEW d \in Calls, d # c PROVE Shares(d)'
        <4>1. call'[d] = call[d] /\ Shares(d)
          BY <2>1, <3>2 DEF Moves, Shared
        <4>2. askers' # {d} /\ (d \notin askers' => d \notin askers)
          BY Zenon, <2>3, <3>2
        <4> QED BY Zenon, <1>2, <4>1, <4>2 DEF Shares
      <3>3. \A d \in askers' : call'[d].pc \in out
        BY Zenon, <2>1, <2>3 DEF Moves, Shared
      <3>4. askers' \subseteq Calls /\ askers' # {}
        BY Zenon, <2>3 DEF Shared
      <3> QED BY Zenon, <3>1, <3>2, <3>3, <3>4 DEF Shared
    <2> QED BY Zenon, <1>9, <2>2, <2>3 DEF Worked
  <1>10. CASE Leaves(c)
    <2>1. /\ call[c].pc \in {"handler", "unwind", "flush"} /\ UNCHANGED <<shared, askers>>
          /\ Moves(c, {"pc", "panicked"}) /\ call'[c].pc \in {"unwind", "flush", "exit"}
          /\ call'[c].user = call[c].user
      BY Zenon, <1>10 DEF Leaves, Moves, CallFields
    <2>2. Shares(c)'
      BY Zenon, <1>2, <1>3, <2>1 DEF Shares
    <2> QED BY Zenon, <1>5, <2>1, <2>2
  <1>11. CASE Late(c)
    <2>1. /\ UNCHANGED <<shared, askers>> /\ Moves(c, {"late"})
          /\ call'[c].pc = call[c].pc /\ call'[c].user = call[c].user
      BY Zenon, <1>11 DEF Late, Moves, CallFields
    <2>2. Shares(c)'
      BY Zenon, <1>2, <1>3, <2>1 DEF Shares
    <2> QED BY Zenon, <1>3, <1>5, <2>1, <2>2
  <1>12. CASE Ends(c)
    <2>1. /\ UNCHANGED <<shared, askers>> /\ Moves(c, CallFields \ {"req", "served"})
          /\ call'[c].pc = "done" /\ call'[c].user = NoFrame
      BY Zenon, <1>12 DEF Ends, Over
    <2>2. Shares(c)'
      BY Zenon, <1>4, <2>1 DEF Shares
    <2> QED BY Zenon, <1>5, <2>1, <2>2
  <1>13. CASE Handed(c)
    <2>1. /\ call[c].pc = "intercept" /\ UNCHANGED <<shared, askers>> /\ Moves(c, {"user", "next", "pc"})
          /\ call'[c].pc \in {"intercept", "method"}
      BY Zenon, <1>13 DEF Handed
    <2>2. c \notin askers
      BY Zenon, <1>3, <2>1
    <2>3. Shares(c)'
      <3>1. CASE call'[c].user = call[c].user
        BY Zenon, <1>2, <1>3, <2>1, <2>2, <3>1 DEF Shares
      <3>2. CASE /\ HasLogger(call'[c].user.ctx)
                 /\ \/ call'[c].user.asked = boot.asked
                    \/ HasLogger(call[c].user.ctx) /\ call'[c].user.asked = call[c].user.asked
        BY Zenon, <1>2, <1>3, <2>1, <2>2, <3>2 DEF Shares
      <3> QED BY Zenon, <1>13, <3>1, <3>2 DEF Handed
    <2> QED BY Zenon, <1>5, <2>1, <2>2, <2>3
  <1>14. CASE Served(c)
    <2>1. /\ call[c].pc = "method" /\ UNCHANGED <<shared, askers>> /\ Moves(c, {"pc", "served"})
          /\ call'[c].pc = "handler" /\ call'[c].user = call[c].user
      BY Zenon, <1>14 DEF Served, Moves, CallFields
    <2>2. Shares(c)'
      BY Zenon, <1>2, <1>3, <2>1 DEF Shares
    <2> QED BY Zenon, <1>5, <2>1, <2>2
  <1>15. CASE Crashes(c)
    BY Zenon, <1>2, <1>15 DEF Crashes, Shared, Shares
  <1> QED BY Zenon, <1>1, <1>6, <1>7, <1>8, <1>9, <1>10, <1>11, <1>12, <1>13, <1>14, <1>15 DEF StepOf

\* A line is of one of the three severities: Error, Info and Debug are the methods there are
\* (logging.go:17-20).
LEMMA Severities ==
    ASSUME Next
    PROVE  \A l \in line' : l.severity \in Levels
  <1>1. PICK c \in Calls : Arrive(c) \/ App(c) \/ Middleware(c) \/ Grpc(c)
    BY Zenon DEF Next
  <1> DEFINE Fine == \A l \in line' : l.severity \in Levels
  <1>2. ASSUME NEW f, NEW severity \in Levels, NEW inside
        PROVE  Line(c, f, severity, inside).severity \in Levels
    BY Zenon DEF Line
  <1>3. ASSUME NEW f, NEW severity \in Levels, NEW inside, Log(c, f, severity, inside)
        PROVE  Fine
    BY Zenon, <1>2, <1>3 DEF Log
  <1>4. Silent => Fine
    BY Zenon DEF Silent
  <1>5. \A why : (Crash(c, why) => Fine) /\ (Panic(c, why) => Fine)
    BY Zenon, <1>4 DEF Crash, Panic
  <1>6. "info" \in Levels /\ "error" \in Levels /\ "debug" \in Levels
    BY Zenon, LevelSet
  <1> SUFFICES Fine
    OBVIOUS
  <1> HIDE DEF Fine
  <1>7. CASE Arrive(c)
    BY Zenon, <1>4, <1>7 DEF Arrive
  <1>8. CASE App(c)
    <2>1. ASSUME NEW level \in Levels, AppLogs(c, level) \/ AppWithLevel(c, level)
          PROVE  Fine
      BY Zenon, <1>3, <1>4, <1>5, <2>1 DEF AppLogs, AppWithLevel
    <2>2. CASE AppCallsDownstream(c)
      <3> DEFINE f == InitFieldsFromRequest(Derive(call[c].user, "Downstream", "d"), c)
                 answer == Line(c, Derive(f, "status", "s"), "info", TRUE)
                 flush == Line(c, Derive(f, "func", "FlushLog"), "debug", TRUE)
      <3>1. answer.severity \in Levels /\ flush.severity \in Levels
        BY Zenon, <1>2, <1>6
      <3>2. Panic(c, "noLogger")
            \/ \E answered \in BOOLEAN :
                 line' = (IF answered THEN {answer} ELSE {}) \cup (IF payload THEN {flush} ELSE {})
        BY Zenon, <2>2 DEF AppCallsDownstream
      <3> HIDE DEF answer, flush
      <3>3. line' \subseteq {answer, flush} => Fine
        BY Zenon, <3>1 DEF Fine
      <3>4. Panic(c, "noLogger") \/ line' \subseteq {answer, flush}
        BY <3>2
      <3> QED BY Zenon, <1>5, <3>3, <3>4
    <2>3. CASE AppWithStr(c) \/ AppNativeWith(c) \/ AppGetsTraceId(c) \/ AppReturns(c) \/ AppPanics(c)
      BY Zenon, <1>4, <1>5, <2>3 DEF AppWithStr, AppNativeWith, AppGetsTraceId, AppReturns, AppPanics
    <2> QED BY Zenon, <1>8, <2>1, <2>2, <2>3 DEF App
  <1>9. CASE Middleware(c)
    <2>1. CASE TraceabilityMiddleware(c) \/ CoreRequestContextMiddleware(c)
      BY Zenon, <1>3, <1>4, <1>6, <2>1 DEF TraceabilityMiddleware, CoreRequestContextMiddleware
    <2>2. CASE RequestTimerLog(c)
      BY Zenon, <1>3, <1>6, <2>2 DEF RequestTimerLog
    <2>3. CASE FlushLog(c) \/ Recoverer(c) \/ Timeout(c)
      BY Zenon, <1>3, <1>4, <1>6, <2>3 DEF FlushLog, Recoverer, Timeout
    <2> QED BY Zenon, <1>9, <2>1, <2>2, <2>3 DEF Middleware
  <1>10. CASE Grpc(c)
    <2>1. CASE LoggerInterceptor(c) \/ TraceidLogInterceptor(c)
      BY Zenon, <1>4, <1>5, <2>1 DEF LoggerInterceptor, TraceidLogInterceptor
    <2>2. CASE UserInterceptor(c) \/ GrpcMethod(c)
      BY Zenon, <1>3, <1>4, <1>5, <1>6, <2>2 DEF UserInterceptor, GrpcMethod
    <2> QED BY Zenon, <1>10, <2>1, <2>2 DEF Grpc
  <1> QED BY Zenon, <1>1, <1>7, <1>8, <1>9, <1>10

\* pkg/log makes info of error: that tells apart info lines only.
LEMMA LevelMade ==
    ASSUME NEW k, NEW asked \in Levels, NEW severity \in Levels,
           ~(k = "pkg" /\ asked = "error" /\ severity = "info")
    PROVE  (LevelNumber[severity] <= LevelNumber[Made(k, asked)])
             = (LevelNumber[severity] <= LevelNumber[asked])
  BY DEF Made, Levels, LevelNumber

\* A line is written when its context's level lets it be (logging.go:160-162, 196-207).
LEMMA NextLevels ==
    ASSUME Base, Shared', Next
    PROVE  LevelIsOwn'
  <1>1. PICK c \in Calls : Told(c)
    BY StepForms
  <1>2. kind' = kind /\ boot' = boot
    BY Zenon, StepForms DEF processVars
  <1> SUFFICES ASSUME NEW l \in line',
                      kind # "logrus" \/ (askers' \subseteq {l.by} /\ l.asked = call'[l.by].user.asked),
                      ~(kind = "pkg" /\ l.asked = "error" /\ l.severity = "info")
               PROVE  l.written = (LevelNumber[l.severity] <= LevelNumber[l.asked])
    BY Zenon, <1>2 DEF LevelIsOwn, Overruled, InfoAtError, Honoured
  <1>3. PICK g, severity, inside :
          /\ l = Line(c, g, severity, inside)
          /\ Sound(kind, g) /\ HasLogger(g.ctx) /\ shared' = shared
    BY Zenon, <1>1 DEF Told
  <1>4. /\ l.by = c /\ l.severity = severity /\ l.asked = g.asked
        /\ l.written = (LevelNumber[severity]
                          <= LevelNumber[IF kind = "logrus" THEN shared ELSE GetLogger(g.ctx).level])
    BY Zenon, <1>3 DEF Line, Writes
  <1>5. g.asked \in Levels /\ (kind # "logrus" => GetLogger(g.ctx).level = Made(kind, g.asked))
    BY Zenon, <1>3 DEF Sound, Levelled
  <1>6. l.severity \in Levels
    BY Zenon, Severities
  <1>7. CASE kind # "logrus"
    <2>1. l.written = (LevelNumber[l.severity] <= LevelNumber[Made(kind, l.asked)])
      BY Zenon, <1>4, <1>5, <1>7
    <2>2. l.asked \in Levels
      BY Zenon, <1>4, <1>5
    <2>3. (LevelNumber[l.severity] <= LevelNumber[Made(kind, l.asked)])
            = (LevelNumber[l.severity] <= LevelNumber[l.asked])
      <3> DEFINE k == kind
                 asked == l.asked
                 sev == l.severity
      <3>1. ~(k = "pkg" /\ asked = "error" /\ sev = "info") /\ asked \in Levels /\ sev \in Levels
        BY Zenon, <1>6, <2>2
      <3> HIDE DEF k, asked, sev
      <3>2. (LevelNumber[sev] <= LevelNumber[Made(k, asked)]) = (LevelNumber[sev] <= LevelNumber[asked])
        BY Zenon, <3>1, LevelMade
      <3> QED BY Zenon, <3>2 DEF k, asked, sev
    <2> QED BY Zenon, <2>1, <2>3
  <1>8. CASE kind = "logrus"
    <2>1. askers' \subseteq {c} /\ call'[c].user.asked = g.asked
      BY Zenon, <1>4, <1>8
    <2>2. g.asked # None
      BY Zenon, <1>5, LevelSet DEF None
    <2>3. Shares(c)' /\ (askers' = {} => shared' = boot'.asked)
      BY Zenon, <1>2, <1>8 DEF Shared
    <2>4. HasLogger(call'[c].user.ctx) /\ call'[c].pc # "done"
      BY Zenon, <2>1, <2>2, <2>3 DEF Shares
    <2>5. shared' = g.asked
      <3>1. CASE askers' = {}
        BY Zenon, <2>1, <2>3, <2>4, <3>1 DEF Shares
      <3>2. CASE askers' = {c}
        BY Zenon, <1>2, <1>8, <2>1, <2>3, <2>4, <3>2 DEF Shares
      <3> QED BY Zenon, <2>1, <3>1, <3>2
    <2> QED BY Zenon, <1>3, <1>4, <1>8, <2>5
  <1> QED BY <1>7, <1>8
-----------------------------------------------------------------------------
(* Trace ids *)

\* The ids made up so far are 1 to ids; the next one is new, and none of them is one a
\* header may have.
LEMMA Counting ==
    ASSUME NEW n \in Nat, NEW m \in Nat
    PROVE  /\ n + 1 \in 1..(n + 1) /\ n + 1 \notin 1..n /\ 1..n \subseteq 1..(n + 1)
           /\ n < m => n + 1 \notin Nat \ (1..m) /\ n + 1 \in 0..m
           /\ n \in 0..m => \A k \in 1..n : k # n + 1 /\ k \notin Nat \ (1..m)
           /\ 0 \in Nat \ (1..m) /\ 0 \in 0..m /\ 0 \notin 1..n
  OBVIOUS

\* IdOf reads the trace ids off the fields of CoreRequestContextMiddleware's context.
LEMMA IdsRead ==
    ASSUME NEW c
    PROVE  /\ Traced(call[c].core.own) = {} => IdOf(c) = {}
           /\ \A id : Traced(call[c].core.own) = {<<"traceid", id>>} => IdOf(c) = {id}
           /\ Traced(call'[c].core.own) = {} => IdOf(c)' = {}
           /\ \A id : Traced(call'[c].core.own) = {<<"traceid", id>>} => IdOf(c)' = {id}
  <1>1. /\ IdOf(c) = {f[2] : f \in Traced(call[c].core.own)}
        /\ IdOf(c)' = {f[2] : f \in Traced(call'[c].core.own)}
    BY DEF IdOf, Traced
  <1>2. \A id : {f[2] : f \in {<<"traceid", id>>}} = {id}
    OBVIOUS
  <1> QED BY Zenon, <1>1, <1>2

\* An id is one made up before now, or a header's.
LEMMA KnownIds ==
    ASSUME Base, Identified, NEW d \in Calls
    PROVE  /\ call[d].user.id \in (1..ids) \cup (Nat \ (1..MaxIds))
           /\ IdOf(d) \subseteq (1..ids) \cup {call[d].user.id}
           /\ Named(d) => call[d].user.id # NoId
  <1>1. Identity(d) /\ Placed(d) /\ ids \in Nat /\ MaxIds \in Nat
    BY BoundsAssumption DEF Identified, Base, Controlled
  <1>2. NoId \in Nat \ (1..MaxIds)
    BY <1>1 DEF NoId
  <1>3. Named(d) => call[d].req.id \in Nat \ (1..MaxIds)
    BY <1>1, CallersAssumption DEF Sendable, Placed, Named
  <1>4. call[d].user.id \in (1..ids) \cup (Nat \ (1..MaxIds))
    BY Zenon, <1>1, <1>2, <1>3 DEF Identity
  <1>5. IdOf(d) \subseteq (1..ids) \cup {call[d].user.id}
    <2>1. CASE ~Inside(d)
      BY Zenon, <1>1, <2>1, IdsRead DEF Identity
    <2>2. CASE Inside(d)
      <3>1. PICK id \in (1..ids) \cup {call[d].user.id} : Traced(call[d].core.own) = {<<"traceid", id>>}
        BY Zenon, <1>1, <2>2 DEF Identity
      <3> QED BY SMTT(30), <3>1, IdsRead
    <2> QED BY Zenon, <2>1, <2>2
  <1>6. Named(d) => call[d].user.id # NoId
    BY <1>1 DEF Identity, NoId
  <1> QED BY <1>4, <1>5, <1>6

\* What a step may do to the ids of its call: leave them, take the header's, or take the
\* next one that was never used.
Renames(c) ==
    /\ ids' = ids \/ (ids < MaxIds /\ ids' = ids + 1)
    /\ Named(c)' /\ call'[c].req.id = NoId =>
         \/ Named(c) /\ call[c].req.id = NoId /\ call'[c].user.id = call[c].user.id
         \/ call'[c].user.id = ids + 1 /\ ids < MaxIds
    /\ \/ call'[c].user.id = call[c].user.id
       \/ call'[c].user.id = ids + 1 /\ ids < MaxIds
       \/ call'[c].user.id \in Nat \ (1..MaxIds)
    /\ \A id \in IdOf(c)' : id \in IdOf(c) \/ id = call[c].user.id \/ (id = ids + 1 /\ ids < MaxIds)

\* If a step keeps to that, the calls stay apart.
LEMMA StayApart ==
    ASSUME Base, Identified, NEW c \in Calls, NEW changed, Moves(c, changed), Renames(c), Identity(c)'
    PROVE  Identified'
  <1>1. ids \in 0..MaxIds /\ ids \in Nat /\ MaxIds \in Nat
    BY SMTT(30), BoundsAssumption DEF Identified
  <1>2. ids' \in 0..MaxIds /\ 1..ids \subseteq 1..(ids')
    <2>1. CASE ids' = ids
      BY Zenon, <1>1, <2>1
    <2>2. CASE ids < MaxIds /\ ids' = ids + 1
      <3>1. ids + 1 \in 0..MaxIds /\ 1..ids \subseteq 1..(ids + 1)
        BY SMTT(30), <1>1, <2>2
      <3> QED BY Zenon, <2>2, <3>1
    <2> QED BY Zenon, <2>1, <2>2 DEF Renames
  <1>3. ASSUME NEW d \in Calls, d # c PROVE call'[d] = call[d]
    BY Zenon, <1>3 DEF Moves
  <1>4. ASSUME NEW d \in Calls, d # c PROVE Identity(d)'
    <2>1. call'[d] = call[d] /\ Identity(d)
      BY Zenon, <1>3, <1>4 DEF Identified
    <2>2. (Named(d)' <=> Named(d)) /\ (Inside(d)' <=> Inside(d)) /\ (Rest(d)' <=> Rest(d))
      BY Zenon, <2>1 DEF Named, Inside, Rest
    <2>3. /\ ~Named(d) => call'[d].user.id = NoId
          /\ Named(d) => IF call'[d].req.id # NoId THEN call'[d].user.id = call'[d].req.id
                                                    ELSE call'[d].user.id \in 1..(ids')
          /\ ~Inside(d) => Traced(call'[d].core.own) = {}
          /\ Rest(d) /\ call'[d].pc \in {"trace", "core"} => call'[d].seen = {}
      BY Zenon, <1>2, <2>1 DEF Identity
    <2>4. Inside(d) => \E id \in (1..(ids')) \cup {call'[d].user.id} :
              /\ Traced(call'[d].core.own) = {<<"traceid", id>>}
              /\ Traced(call'[d].user.own) = {<<"traceid", id>>}
              /\ Named(d) => id = call'[d].user.id /\ call'[d].seen \subseteq {id}
              /\ ~Named(d) => id \in 1..(ids')
      BY Zenon, <1>2, <2>1 DEF Identity
    <2> QED BY Zenon, <2>2, <2>3, <2>4 DEF Identity
  <1>5. ASSUME NEW d \in Calls, d # c
        PROVE  /\ IdOf(d)' = IdOf(d) /\ call'[d].user.id = call[d].user.id
               /\ Named(d)' <=> Named(d)
               /\ call'[d].req = call[d].req
    BY Zenon, <1>3, <1>5 DEF IdOf, Named
  <1>6. ASSUME NEW a \in Calls, NEW b \in Calls, a # b PROVE Apart(a, b)'
    <2> SUFFICES ASSUME Named(a)', call'[a].req.id = NoId
                 PROVE  call'[a].user.id \notin IdOf(b)' /\ call'[a].user.id # call'[b].user.id
      BY DEF Apart
    <2>1. Apart(a, b)
      BY Zenon, <1>6 DEF Identified
    <2>2. CASE a # c /\ b # c
      BY Zenon, <1>5, <2>1, <2>2 DEF Apart
    <2>3. CASE a = c
      <3>1. IdOf(b)' = IdOf(b) /\ call'[b].user.id = call[b].user.id
        BY Zenon, <1>5, <1>6, <2>3
      <3>2. CASE Named(c) /\ call[c].req.id = NoId /\ call'[c].user.id = call[c].user.id
        BY Zenon, <2>1, <2>3, <3>1, <3>2 DEF Apart
      <3>3. CASE call'[c].user.id = ids + 1 /\ ids < MaxIds
        <4>1. ids + 1 \notin 1..ids /\ ids + 1 \notin Nat \ (1..MaxIds)
          BY Zenon, <1>1, <3>3, Counting
        <4> QED BY ZenonT(30), <2>3, <3>1, <3>3, <4>1, KnownIds
      <3> QED BY Zenon, <2>3, <3>2, <3>3 DEF Renames
    <2>4. CASE b = c
      <3>1. Named(a) /\ call[a].req.id = NoId /\ call'[a].user.id = call[a].user.id
        BY Zenon, <1>5, <1>6, <2>4
      <3>2. call[a].user.id \in 1..ids
        BY Zenon, <3>1 DEF Identified, Identity
      <3>3. call[a].user.id # ids + 1 /\ call[a].user.id \notin Nat \ (1..MaxIds)
        <4>1. \A k \in 1..ids : k # ids + 1 /\ k \notin Nat \ (1..MaxIds)
          BY SMTT(30), <1>1
        <4> QED BY Zenon, <3>2, <4>1
      <3>4. call[a].user.id \notin IdOf(c) /\ call[a].user.id # call[c].user.id
        BY ZenonT(30), <2>1, <2>4, <3>1 DEF Apart
      <3> QED BY Zenon, <2>4, <3>1, <3>3, <3>4 DEF Renames
    <2> QED BY Zenon, <2>2, <2>3, <2>4
  <1> QED BY Zenon, <1>2, <1>4, <1>6 DEF Identified

\* Traceability and CoreRequestContextMiddleware give a request its id once
\* (traceability.go:26-54, corerequestcontext.go:113-116).
LEMMA NextIdentified ==
    ASSUME Base, Identified, Next
    PROVE  Identified'
  <1>1. PICK c \in Calls : StepOf(c)
    BY StepForms
  <1>2. boot' = boot /\ boot.id = NoId /\ Traced(boot.own) = {} /\ NoFrame.id = NoId /\ NoFrame.own = {}
    BY Zenon, StepForms DEF processVars, Base, BootOk, NoFrame, Frame
  <1>3. /\ Placed(c) /\ Identity(c) /\ DOMAIN call[c].user = FrameFields
        /\ ids \in 0..MaxIds /\ ids \in Nat /\ MaxIds \in Nat
    <2>1. Placed(c) /\ Identity(c) /\ DOMAIN call[c].user = FrameFields
      BY Zenon DEF Base, Controlled, Equipped, Sound, Carries, Identified
    <2>2. ids \in 0..MaxIds /\ MaxIds \in Nat
      BY Zenon, BoundsAssumption DEF Identified
    <2>3. \A n \in 0..MaxIds : n \in Nat
      OBVIOUS
    <2> QED BY Zenon, <2>1, <2>2, <2>3
  <1>4. Traced(NoFrame.own) = {} /\ NoId \in Nat \ (1..MaxIds)
    BY <1>2, <1>3 DEF Traced, NoId
  <1>5. ASSUME NEW changed, Moves(c, changed), UNCHANGED ids, call'[c].core = call[c].core,
               call'[c].user.id = call[c].user.id, call'[c].req = call[c].req,
               call'[c].seen = call[c].seen, Traced(call'[c].user.own) = Traced(call[c].user.own) \/ ~Rest(c),
               Named(c)' <=> Named(c), Inside(c)' <=> Inside(c),
               call'[c].pc \in {"trace", "core"} => call[c].pc = call'[c].pc
        PROVE  Identified'
    <2>1. IdOf(c)' = IdOf(c)
      BY Zenon, <1>5 DEF IdOf
    <2>2. Renames(c)
      BY Zenon, <1>5, <2>1 DEF Renames
    <2>3. Identity(c)'
      <3>1. Rest(c)' <=> Rest(c)
        BY Zenon, <1>5 DEF Rest
      <3>2. Inside(c) => Rest(c)
        BY Zenon DEF Inside
      <3> QED BY Zenon, <1>3, <1>5, <3>1, <3>2 DEF Identity
    <2> QED BY Zenon, <1>5, <2>2, <2>3, StayApart
  <1>6. CASE Enters(c)
    <2>1. /\ Moves(c, CallFields) /\ UNCHANGED ids
          /\ call'[c].user.id = NoId /\ call'[c].core = NoFrame /\ call'[c].seen = {}
      BY Zenon, <1>2, <1>6 DEF Enters
    <2>2. ~Named(c)' /\ ~Inside(c)'
      BY Zenon, <1>6 DEF Enters, Named, Inside
    <2>3. Identity(c)'
      BY Zenon, <1>4, <2>1, <2>2 DEF Identity
    <2>4. IdOf(c)' = {}
      BY Zenon, <1>4, <2>1, IdsRead
    <2>5. Renames(c)
      BY Zenon, <1>4, <2>1, <2>2, <2>4 DEF Renames
    <2> QED BY Zenon, <2>1, <2>3, <2>5, StayApart
  <1>7. CASE Tagged(c)
    <2>1. PICK id : /\ call'[c].user = [call[c].user EXCEPT !.id = id]
                    /\ \/ id = call[c].req.id /\ id # NoId /\ ids' = ids
                       \/ call[c].req.id = NoId /\ ids < MaxIds /\ id = ids + 1 /\ ids' = ids + 1
      BY <1>7 DEF Tagged
    <2>2. /\ call[c].pc = "trace" /\ Moves(c, {"pc", "user"}) /\ call'[c].pc = "core"
          /\ call'[c].req = call[c].req /\ call'[c].core = call[c].core /\ call'[c].seen = call[c].seen
      BY <1>7 DEF Tagged, Moves, CallFields
    <2>3. call'[c].user.id = id
      BY Zenon, <1>3, <2>1 DEF FrameFields
    <2>4. call[c].req \in Requests /\ call[c].req.proto = "public" /\ call[c].req.id \in Nat \ (1..MaxIds)
      BY Zenon, <1>3, <2>2, CallersAssumption DEF Sendable, Placed
    <2>5. Named(c)' /\ ~Inside(c)' /\ ~Inside(c) /\ Rest(c)
      BY Zenon, <2>2, <2>4 DEF Named, Inside, Rest
    <2>6. Identity(c)'
      <3>1. Traced(call'[c].core.own) = {} /\ call'[c].seen = {}
        BY Zenon, <1>3, <2>2, <2>5 DEF Identity
      <3>2. IF call'[c].req.id # NoId THEN call'[c].user.id = call'[c].req.id
                                       ELSE call'[c].user.id \in 1..(ids')
        BY SMTT(30), <1>3, <2>1, <2>2, <2>3
      <3> QED BY Zenon, <2>5, <3>1, <3>2 DEF Identity
    <2>7. IdOf(c)' = IdOf(c)
      BY Zenon, <2>2 DEF IdOf
    <2>8. Renames(c)
      BY Zenon, <1>3, <2>1, <2>2, <2>3, <2>4, <2>7 DEF Renames
    <2> QED BY Zenon, <2>2, <2>6, <2>8, StayApart
  <1>8. CASE LetIn(c)
    <2>1. /\ call[c].pc = "core" /\ Moves(c, {"pc", "core", "user"}) /\ call'[c].pc = "handler"
          /\ call'[c].core = call'[c].user /\ call'[c].user.id = call[c].user.id
          /\ call'[c].req = call[c].req /\ call'[c].seen = call[c].seen
      BY Zenon, <1>8 DEF LetIn, Moves, CallFields
    <2>2. PICK id : /\ GetTraceIDFromContext(call[c].user, id)
                    /\ Traced(call'[c].user.own) = {<<"traceid", id>>}
      BY Zenon, <1>8 DEF LetIn
    <2>3. \/ id = call[c].user.id /\ ids' = ids /\ call[c].user.id # NoId
          \/ id = ids + 1 /\ ids' = ids + 1 /\ ids < MaxIds /\ call[c].user.id = NoId
      BY Zenon, <2>2 DEF GetTraceIDFromContext
    <2>4. Rest(c) /\ Rest(c)' /\ Inside(c)' /\ (Named(c)' <=> Named(c)) /\ call[c].seen = {}
      BY Zenon, <1>3, <2>1 DEF Placed, Rest, Inside, Named, Identity
    <2>5. /\ Named(c) => call[c].user.id # NoId
          /\ ~Named(c) => call[c].user.id = NoId
      BY Zenon, <1>3, KnownIds DEF Identity
    <2>6. Identity(c)'
      <3>1. /\ Named(c) => id = call'[c].user.id
            /\ ~Named(c) => id \in 1..(ids')
        <4>1. ids + 1 \in 1..(ids + 1)
          BY Zenon, <1>3, Counting
        <4> QED BY Zenon, <2>1, <2>3, <2>5, <4>1
      <3>2. Named(c) => IF call'[c].req.id # NoId THEN call'[c].user.id = call'[c].req.id
                                                   ELSE call'[c].user.id \in 1..(ids')
        BY Zenon, <1>3, <2>1, <2>3, <2>5 DEF Identity
      <3>3. id \in (1..(ids')) \cup {call'[c].user.id}
        BY Zenon, <3>1
      <3>4. ~Named(c) => call'[c].user.id = NoId
        BY Zenon, <2>1, <2>5
      <3>5. Traced(call'[c].core.own) = {<<"traceid", id>>} /\ call'[c].seen = {} /\ call'[c].pc \notin {"trace", "core"}
        BY Zenon, <2>1, <2>2, <2>4
      <3>6. Inside(c)' => \E i \in (1..(ids')) \cup {call'[c].user.id} :
              /\ Traced(call'[c].core.own) = {<<"traceid", i>>}
              /\ Traced(call'[c].user.own) = {<<"traceid", i>>}
              /\ Named(c) => i = call'[c].user.id /\ call'[c].seen \subseteq {i}
              /\ ~Named(c) => i \in 1..(ids')
        BY Zenon, <2>2, <3>1, <3>3, <3>5
      <3> QED BY Zenon, <2>4, <3>2, <3>4, <3>5, <3>6 DEF Identity
    <2>7. IdOf(c)' = {id}
      BY Zenon, <2>1, <2>2, IdsRead
    <2>8. Renames(c)
      BY Zenon, <2>1, <2>3, <2>4, <2>7 DEF Renames
    <2> QED BY Zenon, <2>1, <2>6, <2>8, StayApart
  <1>9. CASE Worked(c)
    <2>1. /\ call[c].pc = "handler" /\ Moves(c, {"user", "ops", "seen"}) /\ call'[c].pc = call[c].pc
          /\ call'[c].req = call[c].req /\ call'[c].core = call[c].core
          /\ call'[c].user.id = call[c].user.id /\ Traced(call'[c].user.own) = Traced(call[c].user.own)
      BY Zenon, <1>9 DEF Worked, Moves, CallFields
    <2>2. (Named(c)' <=> Named(c)) /\ (Inside(c)' <=> Inside(c))
      BY Zenon, <2>1 DEF Named, Inside, Rest
    <2>3. CASE ids' = ids /\ call'[c].seen = call[c].seen
      BY Zenon, <1>5, <2>1, <2>2, <2>3
    <2>4. CASE \E id : GetTraceIDFromContext(call[c].user, id) /\ call'[c].seen = call[c].seen \cup {id}
      <3>1. PICK id : GetTraceIDFromContext(call[c].user, id) /\ call'[c].seen = call[c].seen \cup {id}
        BY Zenon, <2>4
      <3>2. /\ ids' = ids \/ (ids < MaxIds /\ ids' = ids + 1)
            /\ Named(c) => id = call[c].user.id /\ ids' = ids
        BY Zenon, <3>1, KnownIds DEF GetTraceIDFromContext
      <3>3. 1..ids \subseteq 1..(ids')
        BY SMTT(30), <1>3, <3>2
      <3>4. IdOf(c)' = IdOf(c)
        BY Zenon, <2>1 DEF IdOf
      <3>5. Renames(c)
        BY Zenon, <2>1, <2>2, <3>2, <3>4 DEF Renames
      <3>6. /\ ~Named(c)' => call'[c].user.id = NoId
            /\ Named(c)' => IF call'[c].req.id # NoId THEN call'[c].user.id = call'[c].req.id
                                                      ELSE call'[c].user.id \in 1..(ids')
            /\ ~Inside(c)' => Traced(call'[c].core.own) = {}
            /\ call'[c].pc \notin {"trace", "core"}
        BY Zenon, <1>3, <2>1, <2>2, <3>3 DEF Identity
      <3>7. ASSUME Inside(c)
            PROVE  \E i \in (1..(ids')) \cup {call'[c].user.id} :
                     /\ Traced(call'[c].core.own) = {<<"traceid", i>>}
                     /\ Traced(call'[c].user.own) = {<<"traceid", i>>}
                     /\ Named(c) => i = call'[c].user.id /\ call'[c].seen \subseteq {i}
                     /\ ~Named(c) => i \in 1..(ids')
        <4>1. PICK i \in (1..ids) \cup {call[c].user.id} :
                     /\ Traced(call[c].core.own) = {<<"traceid", i>>}
                     /\ Traced(call[c].user.own) = {<<"traceid", i>>}
                     /\ Named(c) => i = call[c].user.id /\ call[c].seen \subseteq {i}
                     /\ ~Named(c) => i \in 1..ids
          BY Zenon, <1>3, <3>7 DEF Identity
        <4>2. Named(c) => call'[c].seen \subseteq {i}
          BY Zenon, <3>1, <3>2, <4>1
        <4> QED BY Zenon, <2>1, <3>3, <4>1, <4>2
      <3>8. Identity(c)'
        BY Zenon, <2>2, <3>6, <3>7 DEF Identity
      <3> QED BY Zenon, <2>1, <3>5, <3>8, StayApart
    <2> QED BY Zenon, <1>9, <2>3, <2>4 DEF Worked
  <1>10. CASE Leaves(c)
    <2>1. /\ call[c].pc \in {"handler", "unwind", "flush"} /\ Rest(c) /\ UNCHANGED ids
          /\ Moves(c, {"pc", "panicked"}) /\ call'[c].pc \in {"unwind", "flush", "exit"}
          /\ call'[c].user = call[c].user /\ call'[c].core = call[c].core /\ call'[c].req = call[c].req
          /\ call'[c].seen = call[c].seen
      BY Zenon, <1>10 DEF Leaves, Moves, CallFields
    <2>2. (Named(c)' <=> Named(c)) /\ (Inside(c)' <=> Inside(c))
      BY Zenon, <2>1 DEF Named, Inside, Rest
    <2> QED BY Zenon, <1>5, <2>1, <2>2
  <1>11. CASE Late(c)
    <2>1. /\ UNCHANGED ids /\ Moves(c, {"late"}) /\ call'[c].pc = call[c].pc
          /\ call'[c].user = call[c].user /\ call'[c].core = call[c].core /\ call'[c].req = call[c].req
          /\ call'[c].seen = call[c].seen
      BY Zenon, <1>11 DEF Late, Moves, CallFields
    <2>2. (Named(c)' <=> Named(c)) /\ (Inside(c)' <=> Inside(c))
      BY Zenon, <2>1 DEF Named, Inside, Rest
    <2> QED BY Zenon, <1>5, <2>1, <2>2
  <1>12. CASE Ends(c)
    <2>1. /\ UNCHANGED ids /\ Moves(c, CallFields \ {"req", "served"}) /\ call'[c].pc = "done"
          /\ call'[c].user = NoFrame /\ call'[c].core = NoFrame
      BY Zenon, <1>12 DEF Ends, Over
    <2>2. ~Named(c)' /\ ~Inside(c)'
      BY Zenon, <2>1 DEF Named, Inside
    <2>3. Identity(c)'
      BY Zenon, <1>2, <1>4, <2>1, <2>2 DEF Identity
    <2>4. IdOf(c)' = {}
      BY Zenon, <1>4, <2>1, IdsRead
    <2>5. Renames(c)
      BY Zenon, <1>2, <1>4, <2>1, <2>2, <2>4 DEF Renames
    <2> QED BY Zenon, <2>1, <2>3, <2>5, StayApart
  <1>13. CASE Handed(c)
    <2>1. /\ call[c].pc = "intercept" /\ UNCHANGED ids /\ Moves(c, {"user", "next", "pc"})
          /\ call'[c].pc \in {"intercept", "method"} /\ call'[c].user.id = call[c].user.id
          /\ call'[c].core = call[c].core /\ call'[c].req = call[c].req /\ call'[c].seen = call[c].seen
      BY Zenon, <1>13 DEF Handed, Moves, CallFields
    <2>2. ~Rest(c)
      BY Zenon, <1>3, <2>1 DEF Placed, Rest
    <2>3. (Named(c)' <=> Named(c)) /\ (Inside(c)' <=> Inside(c))
      BY Zenon, <2>1, <2>2 DEF Named, Inside, Rest
    <2> QED BY Zenon, <1>5, <2>1, <2>2, <2>3
  <1>14. CASE Served(c)
    <2>1. /\ call[c].pc = "method" /\ UNCHANGED ids /\ Moves(c, {"pc", "served"})
          /\ call'[c].pc = "handler" /\ call'[c].user = call[c].user
          /\ call'[c].core = call[c].core /\ call'[c].req = call[c].req /\ call'[c].seen = call[c].seen
      BY Zenon, <1>14 DEF Served, Moves, CallFields
    <2>2. ~Rest(c)
      BY Zenon, <1>3, <2>1 DEF Placed, Rest
    <2>3. (Named(c)' <=> Named(c)) /\ (Inside(c)' <=> Inside(c))
      BY Zenon, <2>1, <2>2 DEF Named, Inside, Rest
    <2> QED BY Zenon, <1>5, <2>1, <2>2, <2>3
  <1>15. CASE Crashes(c)
    <2>1. call' = call /\ UNCHANGED ids
      BY Zenon, <1>15 DEF Crashes
    <2>2. Moves(c, {})
      BY Zenon, <2>1 DEF Moves, Base, Shape
    <2>3. (Named(c)' <=> Named(c)) /\ (Inside(c)' <=> Inside(c))
      BY Zenon, <2>1 DEF Named, Inside, Rest
    <2> QED BY Zenon, <1>5, <2>1, <2>2, <2>3
  <1> QED BY <1>1, <1>6, <1>7, <1>8, <1>9, <1>10, <1>11, <1>12, <1>13, <1>14, <1>15 DEF StepOf
\* A call that is inside keeps its request and its id.
LEMMA KeptInside ==
    ASSUME Base, NEW c \in Calls, StepOf(c), Inside(c)'
    PROVE  Rest(c) /\ (Inside(c) => call'[c].user.id = call[c].user.id)
  <1>1. Placed(c) /\ call'[c].pc \in {"handler", "unwind", "flush", "exit"} /\ Rest(c)'
    BY Zenon DEF Base, Controlled, Inside
  <1>2. ~Enters(c) /\ ~Ends(c) /\ ~Handed(c)
    BY Zenon, <1>1 DEF Enters, Ends, Over, Handed
  <1>3. CASE Tagged(c)
    BY Zenon, <1>1, <1>3 DEF Tagged
  <1>4. CASE LetIn(c)
    BY Zenon, <1>1, <1>4 DEF LetIn, Placed
  <1>5. CASE Worked(c) \/ Leaves(c) \/ Late(c) \/ Served(c)
    <2>1. call'[c].req = call[c].req /\ call'[c].user.id = call[c].user.id
      BY Zenon, <1>5 DEF Worked, Leaves, Late, Served, Moves, CallFields
    <2> QED BY Zenon, <1>1, <2>1 DEF Rest
  <1>6. CASE Crashes(c)
    BY Zenon, <1>1, <1>6 DEF Crashes, Rest
  <1> QED BY Zenon, <1>2, <1>3, <1>4, <1>5, <1>6 DEF StepOf

\* What is told of the ids is what OneTraceId says.
LEMMA NextTraceIds ==
    ASSUME Base, Identified, Identified', Next
    PROVE  OneTraceId'
  <1>1. PICK m \in Calls : StepOf(m) /\ Told(m)
    BY Zenon, StepForms
  <1> SUFFICES ASSUME NEW c \in Calls,
                      call'[c].pc \in {"handler", "unwind", "flush", "exit"}, call'[c].req.proto = "public"
               PROVE  /\ call'[c].req.id # NoId => IdOf(c)' = {call'[c].req.id}
                      /\ call'[c].seen \subseteq IdOf(c)'
                      /\ \A l \in line' : l.by = c /\ l.inside =>
                           Traced(l.fields) = {<<"traceid", id>> : id \in IdOf(c)'}
                      /\ \A d \in Calls \ {c} : call'[c].req.id = NoId => IdOf(c)' \cap IdOf(d)' = {}
    BY Zenon DEF OneTraceId, Traced
  <1>2. Named(c)' /\ Inside(c)'
    BY Zenon DEF Named, Inside, Rest
  <1>3. Identity(c)' /\ \A d \in Calls \ {c} : Apart(c, d)'
    BY Zenon DEF Identified
  <1>4. /\ Traced(call'[c].core.own) = {<<"traceid", call'[c].user.id>>}
        /\ call'[c].seen \subseteq {call'[c].user.id}
        /\ call'[c].req.id # NoId => call'[c].user.id = call'[c].req.id
    BY Zenon, <1>2, <1>3 DEF Identity
  <1>5. IdOf(c)' = {call'[c].user.id}
    BY Zenon, <1>4, IdsRead
  <1>6. \A d \in Calls \ {c} : call'[c].req.id = NoId => IdOf(c)' \cap IdOf(d)' = {}
    BY <1>2, <1>3, <1>5 DEF Apart
  <1>7. ASSUME NEW l \in line', l.by = c, l.inside
        PROVE  Traced(l.fields) = {<<"traceid", call'[c].user.id>>}
    <2>1. PICK g, severity, inside :
            /\ l = Line(m, g, severity, inside) /\ Sound(kind, g)
            /\ inside /\ Rest(m) =>
                 Inside(m) /\ Traced(g.own) \in {Traced(call[m].core.own), Traced(call[m].user.own)}
      BY ZenonT(40), <1>1 DEF Told
    <2>2. m = c /\ inside /\ l.fields = g.own
      BY Zenon, <1>7, <2>1 DEF Line, Sound, Carries
    <2>3. Rest(c) /\ (Inside(c) => call'[c].user.id = call[c].user.id)
      BY Zenon, <1>1, <1>2, <2>2, KeptInside
    <2>4. /\ Inside(c) /\ call'[c].user.id = call[c].user.id
          /\ Traced(g.own) \in {Traced(call[c].core.own), Traced(call[c].user.own)}
      BY Zenon, <2>1, <2>2, <2>3
    <2>5. call[c].req = call'[c].req
      <3>1. ~Enters(c)
        BY Zenon, <2>4 DEF Inside, Enters
      <3> QED BY Zenon, <1>1, <2>2, <3>1 DEF StepOf, Tagged, LetIn, Worked, Leaves, Late, Ends, Over, Handed,
                                      Served, Crashes, Moves, CallFields
    <2>6. Named(c)
      BY Zenon, <2>4, <2>5 DEF Named, Inside
    <2>7. /\ Traced(call[c].core.own) = {<<"traceid", call[c].user.id>>}
          /\ Traced(call[c].user.own) = {<<"traceid", call[c].user.id>>}
      BY Zenon, <2>4, <2>6 DEF Identified, Identity
    <2> QED BY <2>2, <2>4, <2>7
  <1>8. {<<"traceid", id>> : id \in {call'[c].user.id}} = {<<"traceid", call'[c].user.id>>}
    OBVIOUS
  <1> QED BY Zenon, <1>4, <1>5, <1>6, <1>7, <1>8

-----------------------------------------------------------------------------

\* The inductive invariant
CallInv ==
    /\ Base /\ Shared /\ Identified /\ Unserved /\ \A c \in Calls : LetInBy(c)
    /\ LineIsOwn /\ LevelIsOwn /\ OneTraceId /\ OnlyTheAppCrashes

\* Before anything has arrived.
LEMMA InitCalls == Init => CallInv
  <1> SUFFICES ASSUME Init PROVE CallInv
    OBVIOUS
  <1>1. Base
    BY Zenon, InitBase
  <1>2. /\ DOMAIN call = Calls /\ \A c \in Calls : call[c] = Free
        /\ line = {} /\ askers = {} /\ ids = 0 /\ crashed = {}
    BY Zenon DEF Init
  <1>3. /\ Free.pc = "idle" /\ Free.req.proto = None /\ Free.core = NoFrame /\ Free.user = NoFrame
        /\ NoFrame.id = NoId /\ NoFrame.own = {} /\ NoFrame.asked = None
    BY Zenon DEF Free, NoFrame, Frame
  <1>4. ~HasLogger(NoFrame.ctx)
    BY Zenon, <1>1, Nothing DEF Base, BootOk
  <1>5. kind = "logrus" => shared = boot.asked
    <2>1. PICK s \in Setups : /\ kind = s.kind /\ boot = BootFrame(s.level)
                              /\ shared = SharedLevel(kind, s.level, "info")
      BY Zenon DEF Init
    <2>2. boot.asked = s.level
      BY Zenon, <2>1 DEF BootFrame, Frame
    <2> QED BY Zenon, <2>1, <2>2 DEF SharedLevel
  <1>6. Shared
    BY Zenon, <1>2, <1>3, <1>4, <1>5 DEF Shared, Shares
  <1>7. Traced({}) = {}
    BY Zenon DEF Traced
  <1>8. ASSUME NEW c \in Calls PROVE ~Named(c) /\ ~Inside(c) /\ ~Rest(c) /\ call[c].user.id = NoId
                                      /\ Traced(call[c].core.own) = {}
    BY Zenon, <1>2, <1>3, <1>7 DEF Named, Inside, Rest, None
  <1>9. Identified
    <2>1. ids \in 0..MaxIds
      BY Zenon, <1>2, BoundsAssumption, Counting
    <2> QED BY Zenon, <1>8, <2>1 DEF Identified, Identity, Apart
  <1>10. Unserved /\ \A c \in Calls : LetInBy(c)
    BY Zenon, <1>2, <1>3 DEF Unserved, LetInBy
  <1>11. LineIsOwn /\ LevelIsOwn /\ OneTraceId /\ OnlyTheAppCrashes
    BY Zenon, <1>2, <1>3 DEF LineIsOwn, LevelIsOwn, OneTraceId, OnlyTheAppCrashes
  <1> QED BY Zenon, <1>1, <1>6, <1>9, <1>10, <1>11 DEF CallInv

\* The properties' variables do not move in a stuttering step.
LEMMA StutterCalls ==
    ASSUME CallInv, UNCHANGED vars
    PROVE  CallInv'
  <1>1. /\ kind' = kind /\ boot' = boot /\ options' = options /\ call' = call /\ line' = line
        /\ shared' = shared /\ askers' = askers /\ ids' = ids /\ crashed' = crashed
    BY Zenon DEF vars, processVars
  <1>2. Base'
    BY ZenonT(40), <1>1 DEF CallInv, Base, BootOk, Shape, Controlled, Placed, Equipped, Rest, InFlight, Inside
  <1>3. Shared'
    BY Zenon, <1>1 DEF CallInv, Shared, Shares
  <1>4. ASSUME NEW c \in Calls PROVE Identity(c)'
    BY Zenon, <1>1 DEF CallInv, Identified, Identity, Named, Inside, Rest
  <1>5. ASSUME NEW c \in Calls, NEW d \in Calls, c # d PROVE Apart(c, d)'
    BY Zenon, <1>1, <1>5 DEF CallInv, Identified, Apart, Named, IdOf
  <1>6. Identified'
    BY Zenon, <1>1, <1>4, <1>5 DEF CallInv, Identified
  <1>7. Unserved' /\ \A c \in Calls : LetInBy(c)'
    BY Zenon, <1>1 DEF CallInv, Unserved, LetInBy
  <1>8. LineIsOwn' /\ LevelIsOwn' /\ OnlyTheAppCrashes'
    BY Zenon, <1>1 DEF CallInv, LineIsOwn, LevelIsOwn, InfoAtError, Overruled, Honoured, OnlyTheAppCrashes, Rest
  <1>9. OneTraceId'
    BY Zenon, <1>1 DEF CallInv, OneTraceId, IdOf
  <1> QED BY Zenon, <1>2, <1>3, <1>6, <1>7, <1>8, <1>9 DEF CallInv

\* The invariant holds along every behaviour.
LEMMA CallInvariance == Spec => []CallInv
  <1>1. CallInv /\ [Next]_vars => CallInv'
    <2>1. CASE CallInv /\ Next
      <3>1. Base /\ Shared /\ Identified /\ Unserved /\ (\A c \in Calls : LetInBy(c)) /\ OnlyTheAppCrashes
        BY <2>1 DEF CallInv
      <3>2. Base'
        BY <2>1, <3>1, NextBase
      <3>3. Shared'
        BY <2>1, <3>1, NextShared
      <3>4. Identified'
        BY <2>1, <3>1, NextIdentified
      <3>5. Unserved' /\ \A c \in Calls : LetInBy(c)'
        BY Zenon, <2>1, <3>1, NextAdmitted
      <3>6. LineIsOwn' /\ LevelIsOwn'
        BY Zenon, <2>1, <3>1, <3>3, NextLines, NextLevels
      <3>7. OneTraceId'
        BY Zenon, <2>1, <3>1, <3>4, NextTraceIds
      <3>8. OnlyTheAppCrashes'
        BY <2>1, <3>1, NextCrash
      <3> QED BY Zenon, <3>2, <3>3, <3>4, <3>5, <3>6, <3>7, <3>8 DEF CallInv
    <2> QED BY SMTT(30), <2>1, StutterCalls
  <1> QED BY <1>1, InitCalls, PTL DEF Spec

\* A line carries every field put on its own context and nothing another call in flight,
\* or a context derived further in, has added, with each of the three libraries
\* (logging.go:164-169, 209-214, 238-245).
THEOREM OwnLines == Spec => []LineIsOwn
  <1>1. CallInv => LineIsOwn
    BY DEF CallInv
  <1> QED BY <1>1, CallInvariance, PTL

\* The level set on a context decides what is written through it, for any number of calls
\* and whatever the others set, with two exceptions: info lines of pkg/log under level error,
\* and lines of logrus once another call or a context further in has set a level
\* (logging.go:160-162, 196-207, 247-261).
THEOREM OwnLevels == Spec => []LevelIsOwn
  <1>1. CallInv => LevelIsOwn
    BY DEF CallInv
  <1> QED BY <1>1, CallInvariance, PTL

\* A public request has one trace id, its header's or one no other request has, in its
\* lines and in what the application is given (traceability.go:26-54,
\* corerequestcontext.go:113-116).
THEOREM TraceIdentity == Spec => []OneTraceId
  <1>1. CallInv => OneTraceId
    BY SMTT(30) DEF CallInv
  <1> QED BY <1>1, CallInvariance, PTL

\* A gRPC function is reached only past its rule, and a refusal that is not of a bad token
\* has the code that says why (grpc_handler.arrai:86-101, jwtclaimsrule.go:38-81,
\* jwtgrpc.go:28-43).
THEOREM GrpcAdmission == Spec => []GrpcAdmitted
  <1>1. CallInv => GrpcAdmitted
    BY DEF CallInv, LetInBy, GrpcAdmitted, Refusal, GoodToken, Bearer
  <1> QED BY <1>1, CallInvariance, PTL

\* The process dies of a missing logger only where the application chose the interceptors,
\* and never of a REST request (grpc.go:54-89, 185-194, recoverer.go:11-34).
THEOREM CrashCauses == Spec => []OnlyTheAppCrashes
  <1>1. CallInv => OnlyTheAppCrashes
    BY DEF CallInv
  <1> QED BY <1>1, CallInvariance, PTL
=============================================================================
