------------------------------- MODULE Config -------------------------------
(***************************************************************************)
(* src/config.rs: settings from the environment, a TOML file and defaults, *)
(* and their validation.  A text is a sequence of tokens, white space      *)
(* among them.  What a layer gives for a setting is an Option of a raw     *)
(* value: [parses, value], where a malformed one does not parse.           *)
(***************************************************************************)
EXTENDS Integers, Sequences, SequencesExt, Options

Trim(text) ==
    LET kept == {i \in DOMAIN text : text[i] # " "}
    IN  IF kept = {} THEN <<>>
        ELSE SubSeq(text, CHOOSE i \in kept : \A j \in kept : i <= j,
                          CHOOSE i \in kept : \A j \in kept : j <= i)
trimmed_non_empty(text) == IF Trim(text) = <<>> THEN None ELSE Some(Trim(text))

Unset == [env |-> None, file |-> None]
Layer(layers, name) == IF name \in DOMAIN layers THEN layers[name] ELSE Unset
Malformed(raw) == IsSome(raw) /\ ~Value(raw).parses
RawValue(raw) == IF raw = None THEN None ELSE Some(Value(raw).value)

(* env(..)?.or(file.get(..)?).unwrap_or(default): both layers are read, so *)
(* a malformed file entry fails even under an environment variable.        *)
Eager(layer, default) ==
    [fails |-> Malformed(layer.env) \/ Malformed(layer.file),
     value |-> UnwrapOr(OrElse(RawValue(layer.env), RawValue(layer.file)), default)]

(* match env_optional(..)? { Some(v) => v, None => file.optional(..)? }:   *)
(* a blank variable switches the file's entry off, unread.                 *)
Blanked(raw) == IF raw = None THEN None ELSE trimmed_non_empty(Value(raw))
Optional(layer) ==
    [fails |-> IF IsSome(layer.env) THEN Malformed(layer.env) ELSE Malformed(layer.file),
     value |-> IF IsSome(layer.env) THEN Blanked(RawValue(layer.env)) ELSE Blanked(RawValue(layer.file))]

(* duration_ms_or_secs, in milliseconds: the first one set decides, the    *)
(* others are not read.                                                    *)
InMillis(name, value) == IF name = "admission_wait_ms" THEN value ELSE 1000 * value

FirstSet(sources, default_secs) ==
    LET set == {i \in DOMAIN sources : IsSome(sources[i].raw)}
        first == sources[CHOOSE i \in set : \A j \in set : i <= j]
    IN  IF set = {} THEN [fails |-> FALSE, value |-> 1000 * default_secs]
        ELSE [fails |-> Malformed(first.raw),
              value |-> InMillis(first.name, Value(first.raw).value)]

(* Mutant: milliseconds of either layer before seconds of either. *)
duration_ms_or_secs_UnitFirst(layers) ==
    LET Source(name, of) == [name |-> name, raw |-> Layer(layers, name)[of]]
    IN  FirstSet(<< Source("admission_wait_ms", "env"), Source("admission_wait_ms", "file"),
                    Source("admission_wait_secs", "env"), Source("admission_wait_secs", "file") >>, 1)

duration_ms_or_secs(layers) ==
    LET Source(name, of) == [name |-> name, raw |-> Layer(layers, name)[of]]
    IN  FirstSet(<< Source("admission_wait_ms", "env"), Source("admission_wait_secs", "env"),
                    Source("admission_wait_ms", "file"), Source("admission_wait_secs", "file") >>, 1)

-----------------------------------------------------------------------------
(* OperatorConfig::from_env: the settings and their defaults.  The default *)
(* of the body limit is in MiB.                                            *)
Defaults == [
    bind |-> <<"127.0.0.1:9090">>,
    tls_enabled |-> FALSE,
    tls_mode |-> <<"file">>,
    tls_backend_bind |-> <<"127.0.0.1:4319">>,
    api_key |-> <<"dev-canardstack-key">>,
    admin_api_key |-> <<"dev-canardstack-admin-key">>,
    duckdb_write_memory_limit |-> <<"1GiB">>,
    query_memory_limit |-> <<"1GiB">>,
    ducklake_quack_insecure_tls |-> FALSE,
    max_body_bytes |-> 8,
    query_concurrency |-> 4,
    query_timeout_secs |-> 15,
    cheap_query_admission_capacity |-> 1,
    max_concurrent_connections |-> 1024,
    socket_read_timeout |-> 30,
    socket_write_timeout |-> 30]

OptionalSettings ==
    {"duckdb_extension_dir", "postgres_dsn", "ducklake_attach_uri", "ducklake_catalog_path",
     "ducklake_data_path", "ducklake_quack_token"}

(* Paths without a default, read eagerly and not trimmed. *)
TlsFiles == {"tls_cert_file", "tls_key_file"}
TlsFile(layer) ==
    [fails |-> Malformed(layer.env) \/ Malformed(layer.file),
     value |-> OrElse(RawValue(layer.env), RawValue(layer.file))]

(* reject_removed_bool *)
Removed == {"grpc_enabled", "local_catalog_enabled"}

Settings(layers) ==
    [s \in DOMAIN Defaults \cup OptionalSettings \cup TlsFiles \cup Removed \cup {"query_admission_wait"} |->
        CASE s \in DOMAIN Defaults -> Eager(Layer(layers, s), Defaults[s])
          [] s \in OptionalSettings -> Optional(Layer(layers, s))
          [] s \in TlsFiles -> TlsFile(Layer(layers, s))
          [] s \in Removed -> Eager(Layer(layers, s), FALSE)
          [] s = "query_admission_wait" -> duration_ms_or_secs(layers)]

(* Trimmed only when it is parsed. *)
TlsModes == {<<"file">>, <<"ephemeral_self_signed">>}

from_env(layers) ==
    LET s == Settings(layers)
        config == [name \in DOMAIN s |-> s[name].value]
    IN  IF \/ \E name \in DOMAIN s : s[name].fails
           \/ \E name \in Removed : config[name]
        THEN None
        ELSE IF Trim(config.tls_mode) \notin TlsModes THEN None
        ELSE Some([config EXCEPT !.tls_mode = Trim(@)])

-----------------------------------------------------------------------------
(* OperatorConfig::validate *)
Blank(text) == Trim(text) = <<>>
UsesQuack(uri) ==
    IsSome(uri) /\ IsPrefix(<<"ducklake:", "quack:">>, Trim(Value(uri)))

KeysValid(c) == ~Blank(c.api_key) /\ ~Blank(c.admin_api_key) /\ c.api_key # c.admin_api_key

TlsValid(c) ==
    c.tls_enabled =>
        /\ ~Blank(c.tls_backend_bind)
        /\ c.tls_backend_bind # c.bind
        /\ c.tls_mode = <<"file">> => IsSome(c.tls_cert_file) /\ IsSome(c.tls_key_file)

QuackValid(c) ==
    /\ UsesQuack(c.ducklake_attach_uri) =>
         IsSome(c.ducklake_quack_token) /\ ~Blank(Value(c.ducklake_quack_token))
    /\ c.ducklake_quack_insecure_tls => UsesQuack(c.ducklake_attach_uri)

LimitsValid(c) ==
    /\ {c.max_body_bytes, c.max_concurrent_connections, c.query_concurrency,
        c.cheap_query_admission_capacity, c.query_timeout_secs,
        c.socket_read_timeout, c.socket_write_timeout} \subseteq Nat \ {0}
    /\ c.query_concurrency > c.cheap_query_admission_capacity
    /\ ~Blank(c.duckdb_write_memory_limit)

validate(c) == KeysValid(c) /\ TlsValid(c) /\ QuackValid(c) /\ LimitsValid(c)

-----------------------------------------------------------------------------
(* AdmissionController::new clamps both capacities. *)
AtLeastOne(n) == IF n < 1 THEN 1 ELSE n
AdmissionCapacities(c) ==
    LET below == c.query_concurrency - 1
        cheap == AtLeastOne(IF c.cheap_query_admission_capacity < below
                            THEN c.cheap_query_admission_capacity ELSE below)
    IN  [cheap |-> cheap, heavy |-> AtLeastOne(c.query_concurrency - cheap)]

(* main's serve and prepare_serve_tls: --listen replaces the address, then *)
(* the result is validated; with TLS the HTTP server moves to the backend  *)
(* address and the terminator takes the public one.  The expects on the    *)
(* certificate files are the missing identity.                             *)
Listeners(c) ==
    IF ~c.tls_enabled THEN [http |-> c.bind, tls |-> None, identity |-> TRUE]
    ELSE [http |-> c.tls_backend_bind, tls |-> Some(c.bind),
          identity |-> c.tls_mode = <<"file">> => IsSome(c.tls_cert_file) /\ IsSome(c.tls_key_file)]

(* The configuration the process runs with, if it starts. *)
serve(layers, listen) ==
    LET config == from_env(layers)
        listening == [Value(config) EXCEPT !.bind = UnwrapOr(listen, @)]
    IN  IF config = None THEN None
        ELSE IF ~validate(listening) THEN None
        ELSE Some(listening)
=============================================================================
