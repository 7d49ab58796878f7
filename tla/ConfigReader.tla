----------------------------- MODULE ConfigReader -----------------------------
(***************************************************************************)
(* config/configreaderbuilder.go and configreaderimpl.go over viper and    *)
(* mapstructure, as LoadCustomConfig (core/serve.go) uses them. A source   *)
(* of values maps the keys it mentions to texts; keys are compared without *)
(* their case. The structure decoded into is reduced to three options.     *)
(***************************************************************************)
EXTENDS TLC

\* library.log.level; an option of text with a default, as library.log.format;
\* one without, as an option of the application
Options == {"level", "format", "name"}

EnvPrefix == "envPrefix"

NoText == ""

\* config.SetDefaults: InfoLevel and "text"
SetDefaults == [level |-> "4", format |-> "text"]

\* What the first decode hook takes for a level, wherever the text stands
LevelWords ==
    [panic |-> "2", fatal |-> "2", error |-> "2", warn |-> "4", info |-> "4", debug |-> "5", trace |-> "5"]

\* strings.ToLower, for the words in capitals a text may be
Spellings == [INFO |-> "info", Debug |-> "debug"]
LowerCase(text) == IF text \in DOMAIN Spellings THEN Spellings[text] ELSE text

ReadsAsLevel(text) == LowerCase(text) \in DOMAIN LevelWords

\* makeDefaultDecodeHook on a text; the decoder then writes the number into an option of text.
Decoded(text) == IF ReadsAsLevel(text) THEN LevelWords[LowerCase(text)] ELSE text

\* The texts that stand for the numbers a level may be written as
IsLevel(text) == text \in {"0", "1", "2", "3", "4", "5", "6"}

-----------------------------------------------------------------------------
(* A reader: the file read last, the defaults, the environment under a     *)
(* prefix (none attached: the empty function), and strict mode.            *)

NoSource == [k \in {} |-> NoText]

NewConfigReaderBuilder == [file |-> NoSource, defaults |-> NoSource, env |-> NoSource,
                           strict |-> FALSE, ignored |-> {}]

\* WithConfigFile merges the file into what was read before.
WithConfigFile(b, file) == [b EXCEPT !.file = file @@ b.file]

WithDefaults(b, defaults) == [b EXCEPT !.defaults = defaults]

WithStrictMode(b, ignored) == [b EXCEPT !.strict = TRUE, !.ignored = ignored]

AttachEnvPrefix(b, env) == [b EXCEPT !.env = env]

\* Build reads the file named last once more, in place of all that was merged.
Build(b, file) == [b EXCEPT !.file = file]

\* Slip: a default is used before the file.
LookupDefaultFirst(r, key) ==
    CASE key \in DOMAIN r.defaults -> r.defaults[key]
      [] key \notin DOMAIN r.defaults /\ key \in DOMAIN r.file -> r.file[key]
      [] OTHER -> NoText

\* viper's order; an empty variable counts as unset.
Lookup(r, key) ==
    CASE key \in DOMAIN r.env /\ r.env[key] # NoText -> r.env[key]
      [] ~(key \in DOMAIN r.env /\ r.env[key] # NoText) /\ key \in DOMAIN r.file -> r.file[key]
      [] OTHER -> IF key \in DOMAIN r.defaults THEN r.defaults[key] ELSE NoText

\* The keys Unmarshal asks for: a variable alone makes none.
AllKeys(r) == DOMAIN r.file \cup DOMAIN r.defaults

\* validateNoUnusedKeys
NoUnusedKeys(r) == r.strict => AllKeys(r) \subseteq Options \cup r.ignored

Values(r) == [o \in Options |-> IF o \in AllKeys(r) THEN Decoded(Lookup(r, o)) ELSE NoText]

\* Whether Unmarshal succeeds, with Values(r): the level is decoded into a number.
Unmarshals(r) == IsLevel(Values(r)["level"]) /\ NoUnusedKeys(r)

-----------------------------------------------------------------------------

\* The reader LoadCustomConfig ends up with; prefix: what GetString found
Reader(file, env) ==
    LET b == WithStrictMode(WithDefaults(WithConfigFile(NewConfigReaderBuilder, file), SetDefaults), {EnvPrefix})
        prefix == Lookup(Build(b, file), EnvPrefix)
    IN  Build(IF prefix # NoText THEN AttachEnvPrefix(b, env) ELSE b, file)
=============================================================================
