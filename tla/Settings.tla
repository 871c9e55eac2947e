------------------------------- MODULE Settings -------------------------------
(***************************************************************************)
(* The configuration a process starts with (platform/config) and the       *)
(* security policy that it and the settings table give (app/identity).     *)
(*                                                                         *)
(* A configuration is a function from the names of its fields to their     *)
(* values; the text of an address, a file name or a key is abstracted to   *)
(* what the validation tells apart.  Durations are integers in the unit of *)
(* the run time; Second is one second in that unit, and a duration wraps   *)
(* where the machine's integers do, HalfRange away from zero.              *)
(***************************************************************************)
EXTENDS Integers

CONSTANTS Second, HalfRange

Minute == 60 * Second
Hour   == 60 * Minute
Day    == 24 * Hour

\* The machine's word holds every duration the policy accepts.
SettingsAssumption ==
  /\ Second \in Nat \ {0}
  /\ HalfRange \in Nat
  /\ 90 * Day < HalfRange

\* Signed arithmetic that wraps.
Wrap(x) == ((x + HalfRange) % (2 * HalfRange)) - HalfRange

\* Duration.Seconds and Duration.Hours, converted to an integer.
Whole(x, unit) == IF x >= 0 THEN x \div unit ELSE -((-x) \div unit)

-----------------------------------------------------------------------------
(* The layers of a configuration.                                          *)

\* The fields tagged yaml:"-", which only the environment may give.
SecretFields ==
  {"database.dsn", "database.readonly_dsn", "cache.username", "cache.password",
   "messaging.access_key", "messaging.secret_key", "streaming.username",
   "streaming.password", "search.username", "search.password", "storage.access_key",
   "storage.secret_key", "nacos.username", "nacos.password", "security.crypto_key",
   "notification.username", "notification.password"}

\* The fields that files set and environment variables override.
OverridableFields ==
  {"app.environment", "server.listen_addr", "server.grpc_listen_addr",
   "server.frame_sources", "server.connect_sources", "server.wujie", "server.wujie_approval",
   "server.tls", "server.pair", "server.client_ca", "server.client_tls",
   "database.provider", "database.pool", "database.auto_migrate",
   "cache.provider", "cache.mode", "cache.addresses", "cache.tls", "cache.pair",
   "messaging.provider", "messaging.endpoint", "messaging.topics", "messaging.tls",
   "messaging.pair", "streaming.provider", "streaming.brokers", "streaming.tls",
   "streaming.pair", "search.provider", "search.urls", "search.tls", "search.pair",
   "storage.provider", "storage.bucket", "storage.endpoint", "storage.local_root",
   "storage.tls", "storage.pair", "discovery.provider", "discovery.servers",
   "discovery.address", "discovery.names_differ", "remote.provider", "remote.servers",
   "remote.data_id", "remote.fail_fast",
   "security.session_ttl", "security.upper", "security.lower", "security.digit",
   "security.symbol", "security.min_length", "security.history", "security.max_age_days",
   "security.max_failures", "security.lock_duration", "security.crypto_provider",
   "security.key_source", "security.same_site", "security.secure_cookies",
   "observability.metrics", "observability.metrics_path", "observability.tracing",
   "observability.otlp", "observability.otlp_tls", "observability.pair",
   "resilience.attempts", "resilience.threshold", "resilience.concurrency",
   "compliance.profile", "compliance.network_days",
   "notification.provider", "notification.topic", "notification.address",
   "notification.tls_mode", "notification.ca", "notification.pair",
   "siem.provider", "siem.topic", "siem.address", "siem.ca", "siem.pair"}

ConfigFields == SecretFields \cup OverridableFields

\* yaml.Unmarshal into an existing configuration: the fields the document has.
Unmarshal(cfg, yaml) ==
  [f \in ConfigFields |->
     IF f \in OverridableFields /\ f \in DOMAIN yaml THEN yaml[f] ELSE cfg[f]]

\* A secret is what the environment (the variable or its _FILE) gives, or empty.
SecretOf(env, f) == IF f \in DOMAIN env THEN env[f] ELSE ""

S3Aliases ==
  {"s3", "aws", "aws-s3", "amazon-s3", "s3-compatible", "s3_compatible", "minio", "minio-s3",
   "oss", "aliyun-oss", "alibaba-oss", "cos", "tencent-cos", "ceph", "ceph-rgw", "radosgw",
   "obs", "huawei-obs"}

normalizeStorageProvider(v) ==
  CASE v \in {"", "local"} -> "local" [] v \in S3Aliases -> "s3" [] OTHER -> v

\* env has the variables that are set and whose text parses: an override whose
\* text does not parse is ignored, as an empty one is.
ApplyEnvironment(cfg, env) ==
  LET over == [f \in ConfigFields |->
                 IF f \in SecretFields THEN SecretOf(env, f)
                 ELSE IF f \in DOMAIN env THEN env[f] ELSE cfg[f]]
  IN [over EXCEPT !["storage.provider"] = normalizeStorageProvider(@)]

-----------------------------------------------------------------------------
(* Validate, one conjunct for each part of the configuration.              *)

isProduction(c) == c["app.environment"] \in {"production", "prod"}

\* What a database address says of TLS: "verify-full" for PostgreSQL, "true" for MySQL.
validateDatabaseTLS(provider, dsn) ==
  /\ provider = "postgres" => dsn = "verify-full"
  /\ provider \in {"mysql", "oceanbase"} => dsn = "true"

DatabaseValid(c) ==
  /\ c["database.provider"] \in {"postgres", "mysql", "oceanbase"}
  /\ c["database.dsn"] # ""
  /\ isProduction(c) =>
       /\ validateDatabaseTLS(c["database.provider"], c["database.dsn"])
       /\ c["database.readonly_dsn"] # "" =>
            validateDatabaseTLS(c["database.provider"], c["database.readonly_dsn"])

\* The migration job validates the pool too, and nothing but the database.
ValidateDatabase(c) == DatabaseValid(c) /\ c["database.pool"]

CacheValid(c) ==
  /\ c["cache.provider"] \in {"disabled", "memory", "redis"}
  /\ c["cache.provider"] = "redis" =>
       c["cache.addresses"] # {} /\ (isProduction(c) => c["cache.tls"])
  /\ c["cache.mode"] \in {"", "standalone", "sentinel", "cluster"}

MessagingValid(c) ==
  /\ c["messaging.provider"] \in {"disabled", "rocketmq"}
  /\ c["messaging.provider"] = "rocketmq" =>
       /\ c["messaging.endpoint"] # ""
       /\ c["messaging.topics"] # {}
       /\ c["messaging.access_key"] # "" /\ c["messaging.secret_key"] # ""
       /\ isProduction(c) => c["messaging.tls"]

StreamingValid(c) ==
  /\ c["streaming.provider"] \in {"disabled", "kafka"}
  /\ c["streaming.provider"] = "kafka" =>
       c["streaming.brokers"] # {} /\ (isProduction(c) => c["streaming.tls"])

\* search.urls is the set of the schemes of the addresses.
SearchValid(c) ==
  /\ c["search.provider"] \in {"disabled", "elasticsearch", "opensearch"}
  /\ c["search.provider"] # "disabled" =>
       /\ c["search.urls"] # {}
       /\ isProduction(c) => c["search.tls"] /\ c["search.urls"] \subseteq {"https"}

StorageValid(c) ==
  /\ c["storage.provider"] \in {"local"} \cup S3Aliases
  /\ normalizeStorageProvider(c["storage.provider"]) = "s3" =>
       /\ c["storage.bucket"] # ""
       /\ isProduction(c) => c["storage.tls"] /\ c["storage.endpoint"] \in {"", "https"}
  /\ normalizeStorageProvider(c["storage.provider"]) = "local" => c["storage.local_root"] # ""

DiscoveryValid(c) ==
  /\ c["discovery.provider"] \in {"disabled", "nacos"}
  /\ c["discovery.provider"] = "nacos" =>
       c["discovery.servers"] # {} /\ c["discovery.address"] /\ c["discovery.names_differ"]
  /\ c["remote.provider"] \in {"disabled", "nacos"}
  /\ c["remote.provider"] = "nacos" => c["remote.servers"] # {} /\ c["remote.data_id"] # ""

productionSecurityFloor(c) ==
  /\ c["security.min_length"] >= 12
  /\ c["security.upper"] /\ c["security.lower"] /\ c["security.digit"] /\ c["security.symbol"]
  /\ c["security.history"] >= 5
  /\ c["security.max_age_days"] \in 1..90
  /\ c["security.max_failures"] \in 1..5
  /\ c["security.lock_duration"] >= 15 * Minute
  /\ c["security.session_ttl"] > 0 /\ c["security.session_ttl"] <= 12 * Hour

SecurityValid(c) ==
  /\ c["security.min_length"] >= 8
  /\ c["security.history"] \in 0..24
  /\ isProduction(c) => productionSecurityFloor(c)
  /\ c["security.crypto_provider"] \in {"standard", "gm"}
  /\ c["security.key_source"] \in {"software", "adapter"}
  /\ isProduction(c) => c["security.key_source"] = "adapter"
  /\ c["security.same_site"] = "none" => c["security.secure_cookies"]

\* A certificate and its key are configured together.
PairsValid(c) ==
  \A f \in {"cache.pair", "messaging.pair", "streaming.pair", "search.pair", "storage.pair",
            "observability.pair"} : c[f] \in {"none", "both"}

\* The sources of the content policy are exact origins, by scheme, without repetition.
SourcesValid(c, f) ==
  c[f].distinct /\ c[f].schemes \subseteq (IF isProduction(c) THEN {"https"} ELSE {"http", "https"})

ServerValid(c) ==
  /\ c["server.listen_addr"] # "" /\ c["server.grpc_listen_addr"] # ""
  /\ c["server.tls"] => c["server.pair"] = "both"
  /\ c["server.client_tls"] => c["server.client_ca"] # ""
  /\ SourcesValid(c, "server.frame_sources") /\ SourcesValid(c, "server.connect_sources")
  /\ c["server.wujie_approval"] = (IF c["server.wujie"] THEN "reference" ELSE "")

OperationValid(c) ==
  /\ c["observability.metrics"] => c["observability.metrics_path"] = "/"
  /\ c["observability.tracing"] =>
       /\ c["observability.otlp"] # ""
       /\ isProduction(c) => c["observability.otlp_tls"] /\ c["observability.otlp"] = "https"
  /\ c["resilience.attempts"] >= 1 /\ c["resilience.threshold"] >= 1
  /\ c["resilience.concurrency"] >= 1
  /\ c["compliance.profile"] \in {"mlps3", "financial"} => c["compliance.network_days"] >= 183
  /\ ~(isProduction(c) /\ c["database.auto_migrate"])

validateDelivery(c) ==
  /\ c["notification.provider"] \in {"disabled", "smtp"}
  /\ c["siem.provider"] \in {"disabled", "cef-tls"}
  /\ c["notification.provider"] = "smtp" =>
       /\ c["notification.address"] # "" /\ c["notification.topic"] # ""
       /\ c["notification.tls_mode"] \in {"starttls", "implicit"}
       /\ c["notification.pair"] \in {"none", "both"}
       /\ c["notification.topic"] \in c["messaging.topics"]
       /\ c["messaging.provider"] = "rocketmq"
       /\ isProduction(c) /\ c["notification.tls_mode"] = "starttls" => c["notification.ca"] # ""
  /\ c["siem.provider"] = "cef-tls" =>
       /\ c["siem.address"] # "" /\ c["siem.topic"] # ""
       /\ c["siem.pair"] \in {"none", "both"}
       /\ c["siem.topic"] \in c["messaging.topics"]
       /\ c["messaging.provider"] = "rocketmq"
       /\ isProduction(c) => c["siem.ca"] # ""

Validate(c) ==
  /\ DatabaseValid(c) /\ CacheValid(c) /\ MessagingValid(c) /\ StreamingValid(c)
  /\ SearchValid(c) /\ StorageValid(c) /\ DiscoveryValid(c) /\ SecurityValid(c)
  /\ PairsValid(c) /\ ServerValid(c) /\ OperationValid(c) /\ validateDelivery(c)

-----------------------------------------------------------------------------
(* Loading.                                                                *)

\* What Load gives for the defaults, the file FORGE_CONFIG names and the environment.
Loaded(default, file, env) == ApplyEnvironment(Unmarshal(default, file), env)

\* What MergeYAML makes of it with the remote document.
Merged(default, file, env, remote) == ApplyEnvironment(Unmarshal(Loaded(default, file, env), remote), env)

\* What the remote source answers: a document, nothing, or an error.
RemoteUnavailable == "unavailable"
RemoteEmpty       == "empty"

\* The configuration bootstrap.New starts with: no start at all when the local one is
\* invalid, when a remote document makes it invalid, or when the remote source fails
\* and the local configuration says fail_fast.
Starts(default, file, env, remote, c) ==
  LET local == Loaded(default, file, env) IN
  /\ Validate(local)
  /\ IF local["remote.provider"] = "disabled" \/ remote = RemoteEmpty THEN c = local
     ELSE IF remote = RemoteUnavailable THEN ~local["remote.fail_fast"] /\ c = local
     ELSE c = Merged(default, file, env, remote) /\ Validate(c)

-----------------------------------------------------------------------------
(* The security policy.                                                    *)

PolicyFields ==
  {"min_length", "upper", "lower", "digit", "symbol", "history", "max_age_days",
   "max_failures", "lock_seconds", "ttl_seconds", "max_sessions"}

\* validateSecurityPolicy: each field is bounded on its own.
FieldValid(k, v) ==
  /\ k = "min_length" => v >= 12
  /\ k \in {"upper", "lower", "digit", "symbol"} => v
  /\ k = "history" => v >= 5
  /\ k = "max_age_days" => v >= 1 /\ v <= 90
  /\ k = "max_failures" => v >= 1 /\ v <= 5
  /\ k = "lock_seconds" => Wrap(v * Second) >= 15 * Minute
  /\ k = "ttl_seconds" => v >= 1 /\ Wrap(v * Second) <= 12 * Hour
  /\ k = "max_sessions" => v >= 1 /\ v <= 5

validateSecurityPolicy(p) == \A k \in PolicyFields : FieldValid(k, p[k])

\* defaultPolicy, as NewService makes it from the configuration and
\* validateResolvedPolicy shows it.
defaultPolicy(c) ==
  [k \in PolicyFields |->
     CASE k = "min_length"   -> c["security.min_length"]
       [] k = "upper"        -> c["security.upper"]
       [] k = "lower"        -> c["security.lower"]
       [] k = "digit"        -> c["security.digit"]
       [] k = "symbol"       -> c["security.symbol"]
       [] k = "history"      -> c["security.history"]
       [] k = "max_age_days" -> Whole(Wrap(c["security.max_age_days"] * Day), Day)
       [] k = "max_failures" -> c["security.max_failures"]
       [] k = "lock_seconds" -> Whole(c["security.lock_duration"], Second)
       [] k = "ttl_seconds"  -> Whole(c["security.session_ttl"], Second)
       [] k = "max_sessions" -> 5]

\* A stored number that the reader of the settings refuses at once.
Parsed(k, v) ==
  /\ k \in {"min_length", "ttl_seconds"} => v >= 1
  /\ k \in {"history", "max_age_days", "max_failures", "lock_seconds", "max_sessions"} => v >= 0

\* What a stored number is after its conversion to a duration and back.
Shown(k, v) ==
  CASE k = "max_age_days"                    -> Whole(Wrap(v * Day), Day)
    [] k \in {"lock_seconds", "ttl_seconds"} -> Whole(Wrap(v * Second), Second)
    [] OTHER                                 -> v

\* resolveSecurityPolicy succeeds: stored holds the keys the table has.
Resolves(default, stored) ==
  /\ \A k \in DOMAIN stored : Parsed(k, stored[k])
  /\ \A k \in PolicyFields :
       FieldValid(k, IF k \in DOMAIN stored THEN Shown(k, stored[k]) ELSE default[k])

\* finalizeBootstrapDefaults writes the fields that its read of the table did not have.
MissingDefaults(default, existing) == [k \in PolicyFields \ DOMAIN existing |-> default[k]]

\* The upsert of SetSecuritySettings.
Upserted(stored, values) ==
  [k \in DOMAIN stored \cup DOMAIN values |-> IF k \in DOMAIN values THEN values[k] ELSE stored[k]]

\* UpdateSecurityPolicy commits: the policy is valid, and so is the one read back.
UpdateAccepted(default, stored, p) ==
  validateSecurityPolicy(p) /\ Resolves(default, Upserted(stored, p))

\* The values a field can have.
FieldValues(k) == IF k \in {"upper", "lower", "digit", "symbol"} THEN BOOLEAN ELSE Int

SecurityTyped(c) ==
  /\ \A f \in {"security.upper", "security.lower", "security.digit", "security.symbol"} :
       c[f] \in BOOLEAN
  /\ \A f \in {"security.min_length", "security.history", "security.max_age_days",
               "security.max_failures", "security.lock_duration", "security.session_ttl"} :
       c[f] \in Int
=============================================================================
