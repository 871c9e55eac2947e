------------------------------ MODULE Storage ------------------------------
(***************************************************************************)
(* What the object-storage layer decides without keeping state: which       *)
(* provider is meant, what a capability contract proves, which operations   *)
(* it therefore allows, and which requests are well formed.  Texts are      *)
(* abstract values; "" is the text that is empty once trimmed.              *)
(***************************************************************************)
EXTENDS Integers, FiniteSets

S3Profiles ==
    {"generic-s3", "aws-s3", "minio", "ceph-rgw", "alibaba-oss", "tencent-cos", "huawei-obs"}

(***************************************************************************)
(* ResolveProviderProfile: the aliases of a product have one profile.       *)
(***************************************************************************)
ResolveProviderProfile(name) ==
    CASE name \in {"", "local", "filesystem"} -> "local"
      [] name \in {"s3", "aws", "aws-s3", "amazon-s3"} -> "aws-s3"
      [] name \in {"s3-compatible", "s3_compatible", "generic-s3", "generic"} -> "generic-s3"
      [] name \in {"minio", "minio-s3"} -> "minio"
      [] name \in {"ceph", "ceph-rgw", "radosgw"} -> "ceph-rgw"
      [] name \in {"oss", "aliyun-oss", "alibaba-oss"} -> "alibaba-oss"
      [] name \in {"cos", "tencent-cos"} -> "tencent-cos"
      [] name \in {"obs", "huawei-obs"} -> "huawei-obs"
      [] OTHER -> "unsupported"

Capabilities ==
    {"basic_object_io", "multipart_recovery", "checksum", "sse_s3", "sse_kms", "versioning", "object_lock",
     "retention", "legal_hold", "constrained_presign", "temporary_credentials"}

CapabilityStates == {"supported", "unsupported", "unknown"}

(***************************************************************************)
(* A capability contract: level, whether target, evidence reference, test   *)
(* time and digest are given, and the state and evidence of capabilities.   *)
(***************************************************************************)
Contracts ==
    [profile : S3Profiles \cup {"local"},
     level : {"Built-in", "Profile", "Adapter slot", "Experimental", "Target-tested", "Not certified"},
     documented : BOOLEAN,
     states : [Capabilities -> CapabilityStates],
     evidence : [Capabilities -> BOOLEAN]]

(***************************************************************************)
(* CapabilityContract.Validate.                                             *)
(***************************************************************************)
Validate(contract, required) ==
    /\ contract.profile \in S3Profiles
    /\ contract.level = "Target-tested"
    /\ contract.documented
    /\ \A c \in Capabilities : contract.states[c] = "supported" => contract.evidence[c]
    /\ \A c \in required : contract.states[c] = "supported"

(***************************************************************************)
(* What New gives an S3 store that has no contract file: only basic         *)
(* operations are reported, and nothing is certified.                       *)
(***************************************************************************)
DefaultContract(profile) ==
    [profile |-> profile, level |-> "Not certified", documented |-> FALSE,
     states |-> [c \in Capabilities |-> IF c = "basic_object_io" THEN "supported" ELSE "unknown"],
     evidence |-> [c \in Capabilities |-> TRUE]]

(***************************************************************************)
(* LoadCapabilityContract: the file is valid and its digest is that of the  *)
(* evidence artifact it names.                                              *)
(***************************************************************************)
Loadable(file) == Validate(file.contract, {"basic_object_io"}) /\ file.digestMatches

(***************************************************************************)
(* New: the contracts a store for this provider name can end up with, given *)
(* the configured evidence file or NoFile; none when New fails.  The local  *)
(* store reports no contract.                                               *)
(***************************************************************************)
NoFile == "none"

ContractsOf(name, file) ==
    LET profile == ResolveProviderProfile(name)
    IN  IF profile \notin S3Profiles THEN {}
        ELSE IF file = NoFile THEN {DefaultContract(profile)}
        ELSE {c \in {file.contract} : Loadable(file) /\ c.profile = profile}

(***************************************************************************)
(* Options of a governed write.  validateGovernedWrite.                     *)
(***************************************************************************)
WriteOptions ==
    [sse : {"none", "s3", "kms", "both"}, retain : {"none", "past", "future"}, hold : BOOLEAN, checksum : BOOLEAN]

ValidGovernedWrite(o) ==
    /\ o.sse # "both"
    /\ o.hold \/ o.retain # "none" => o.checksum
    /\ o.retain # "past"

(***************************************************************************)
(* The capabilities PutGoverned asks for.                                   *)
(***************************************************************************)
RequiredFor(o) ==
    {"basic_object_io"}
    \cup (IF o.checksum THEN {"checksum"} ELSE {})
    \cup (IF o.sse \in {"s3", "both"} THEN {"sse_s3"} ELSE {})
    \cup (IF o.sse \in {"kms", "both"} THEN {"sse_kms"} ELSE {})
    \cup (IF o.retain # "none" THEN {"versioning", "object_lock", "retention", "checksum"} ELSE {})
    \cup (IF o.hold THEN {"versioning", "object_lock", "legal_hold", "checksum"} ELSE {})

GovernedWriteAllowed(contract, o) ==
    ValidGovernedWrite(o) /\ Validate(contract, RequiredFor(o))

=============================================================================
