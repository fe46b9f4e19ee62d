----------------------------- MODULE AttachPlan -----------------------------
(***************************************************************************)
(* src/storage/ducklake.rs: how the DuckLake catalog is attached.  The     *)
(* statements sent to DuckDB are records; a plan that cannot be built is   *)
(* the reason why.                                                         *)
(***************************************************************************)
EXTENDS Config

(* object_store_kind: by the scheme of the trimmed path, in any case. *)
S3Schemes == {"s3://", "s3a://"}
GcsSchemes == {"gcs://", "gs://"}
object_store_kind(path) ==
    LET scheme == Trim(path)
    IN  IF scheme = <<>> THEN "none"
        ELSE IF scheme[1] \in S3Schemes THEN "s3"
        ELSE IF scheme[1] \in GcsSchemes THEN "gcs"
        ELSE "none"

Attach(catalog, data_path) == [do |-> "ATTACH", catalog |-> catalog, data_path |-> data_path]
Secret(type) == [do |-> "SECRET", type |-> type]
Load(extension) == [do |-> "LOAD", extension |-> extension]
Use == [do |-> "USE"]

Plan(mode, sql, needs, object_store) ==
    [error |-> "none", mode |-> mode, sql |-> sql, needs |-> needs, object_store |-> object_store]
Refused(reason) == [error |-> reason]

(* The quack secrets, the one that switches verification off first. *)
QuackSecrets(c) ==
    (IF c.ducklake_quack_insecure_tls THEN << Secret("http") >> ELSE <<>>) \o << Secret("quack") >>

PathOf(text) == IF text = None THEN None ELSE trimmed_non_empty(Value(text))

(* build_ducklake_attach_plan, for an attach URI. *)
UriPlan(c) ==
    LET uri == Trim(Value(c.ducklake_attach_uri))
        path == PathOf(c.ducklake_data_path)
        is_motherduck == uri[1] = "md:"
        is_ducklake == uri[1] = "ducklake:"
        is_quack == IsPrefix(<<"ducklake:", "quack:">>, uri)
    IN  IF uri = <<>> THEN Refused("empty_uri")
        ELSE IF uri[1] = "ATTACH" THEN Refused("statement")
        ELSE IF ~is_motherduck /\ ~is_ducklake THEN Refused("scheme")
        ELSE IF is_quack /\ PathOf(c.ducklake_quack_token) = None THEN Refused("quack_token")
        ELSE IF is_motherduck /\ IsSome(path) THEN Refused("motherduck_data_path")
        ELSE Plan(IF is_motherduck THEN "ducklake_motherduck_remote" ELSE "ducklake_custom_uri",
                  (IF is_quack THEN QuackSecrets(c) ELSE <<>>) \o << Attach(uri, path), Use >>,
                  (IF is_ducklake THEN {"ducklake"} ELSE {})
                      \cup (IF is_motherduck THEN {"md"} ELSE {})
                      \cup (IF is_quack THEN {"quack"} ELSE {}),
                  IF path = None THEN "none" ELSE object_store_kind(Value(path)))

LocalStorageDir == <<"storage">>

(* For a PostgreSQL or a local DuckDB catalog. *)
CatalogPlan(c) ==
    LET path == UnwrapOr(PathOf(c.ducklake_data_path), LocalStorageDir)
        postgres == IsSome(c.postgres_dsn)
        catalog == IF postgres THEN <<"ducklake:", "postgres:">> \o Value(c.postgres_dsn)
                   ELSE <<"ducklake:">> \o UnwrapOr(c.ducklake_catalog_path, <<"canardstack.ducklake">>)
    IN  Plan(IF postgres THEN "ducklake_postgres_catalog" ELSE "ducklake_duckdb_catalog",
             << Attach(catalog, Some(path)), Use >>,
             {"ducklake"} \cup (IF postgres THEN {"postgres"} ELSE {}),
             object_store_kind(path))

build_ducklake_attach_plan(c) ==
    IF IsSome(c.postgres_dsn) /\ IsSome(c.ducklake_attach_uri) THEN Refused("two_catalogs")
    ELSE IF IsSome(c.ducklake_catalog_path)
            /\ (IsSome(c.postgres_dsn) \/ IsSome(c.ducklake_attach_uri)) THEN Refused("catalog_path")
    ELSE IF IsSome(c.ducklake_attach_uri) THEN UriPlan(c)
    ELSE CatalogPlan(c)

-----------------------------------------------------------------------------
(* attach_ducklake_connection and configure_object_store_credentials.      *)
(* An extension that does not load is installed first, which needs it in   *)
(* the image or the network; the first failure ends the attach.  postgres  *)
(* is always installed before it is loaded: INSTALL leaves an installed    *)
(* extension alone, so it succeeds under the same condition.               *)
LoadIf(needed, extension) == IF needed THEN << Load(extension) >> ELSE <<>>

ExtensionSteps(needs) ==
    LoadIf("md" \in needs, "md") \o LoadIf("ducklake" \in needs, "ducklake")
        \o LoadIf("quack" \in needs, "quack") \o LoadIf("postgres" \in needs, "postgres")

ObjectStoreSteps(kind) ==
    IF kind = "none" THEN <<>>
    ELSE << Load("httpfs") >> \o LoadIf(kind = "s3", "aws") \o << Secret(kind) >>

AttachSteps(plan) ==
    ExtensionSteps(plan.needs) \o ObjectStoreSteps(plan.object_store) \o plan.sql

Succeeds(step, image, network) ==
    step.do = "LOAD" => step.extension \in image \/ network

(* configure_extension_directory, before the plan is built: the directory  *)
(* is what decides which extensions the image holds.                       *)
DirectorySteps(c) ==
    IF IsSome(c.duckdb_extension_dir) THEN << [do |-> "DIRECTORY"] >> ELSE <<>>

RunSteps(steps, image, network) ==
    LET failed == {i \in DOMAIN steps : ~Succeeds(steps[i], image, network)}
    IN  IF failed = {} THEN [ok |-> TRUE, executed |-> steps]
        ELSE [ok |-> FALSE,
              executed |-> SubSeq(steps, 1, (CHOOSE i \in failed : \A j \in failed : i <= j) - 1)]

attach_ducklake_connection(c, image, network) ==
    LET plan == build_ducklake_attach_plan(c)
    IN  IF plan.error # "none" THEN [ok |-> FALSE, executed |-> DirectorySteps(c)]
        ELSE RunSteps(DirectorySteps(c) \o AttachSteps(plan), image, network)
=============================================================================
