------------------------------ MODULE Staging ------------------------------
(***************************************************************************)
(* Out-of-band data on its way in (tools/ingest.py over core/storage.py):  *)
(* request_upload hands out a presigned URL and a handle, the client PUTs  *)
(* a parquet object, once or more often, and an ingest names the handle,   *)
(* or an s3:// address, as its source.  An ingest checks where the object  *)
(* is, asks for its size (HEAD) and then reads it (GET).                   *)
(*                                                                         *)
(* Addresses are character strings, and two of them may share a beginning  *)
(* that ends in mid-name.  They are kept as sequences of pieces, with the  *)
(* slashes among them, so that a prefix need not end where a name does.    *)
(***************************************************************************)
EXTENDS Integers, Sequences

Seqs == INSTANCE SequencesExt

CONSTANTS
    Tenant,       \* tenant namespaces, each a sequence of pieces
    File,         \* bound: the object names uuid4 gives, one for each ticket
    StagingPath,  \* the sub-path in settings.staging_bucket (<<>>: none)
    Permitted,    \* settings.allowed_s3_ingest_prefixes
    Lake,         \* addresses of objects outside the staging bucket
    IngestCap,    \* settings.ingest_bytes_cap
    MaxBytes,     \* bound: size of an object
    MaxPuts       \* bound: PUTs to one URL

ASSUME StagingAssumption == {IngestCap, MaxBytes, MaxPuts} \subseteq Nat

\* normalize_tenant leaves no slash in a tenant.
ASSUME AddressAssumption ==
    /\ Tenant \subseteq Seq(STRING \ {"/"}) /\ File \subseteq STRING
    /\ {StagingPath} \cup Permitted \cup Lake \subseteq Seq(STRING)

VARIABLES
    \* Tickets handed out: tenant, handle, and whether the URL still works.
    uploads,
    \* The object at each address: who put it there, its size, and how many
    \* were there before.
    store,
    \* The ingest under way, with the object its HEAD saw and the one its GET
    \* read.  (History) settled: the URL for its object had expired when it began.
    load

stagingVars == <<uploads, store, load>>

\* storage.resolve(location, *parts), with the bucket left out.
UploadsOf(tenant) ==
    StagingPath \o (IF StagingPath = <<>> THEN <<>> ELSE <<"/">>) \o <<"uploads", "/">> \o tenant

Handle(tenant, file) == UploadsOf(tenant) \o <<"/", file>>

Staged == {Handle(t, f) : t \in Tenant, f \in File}

ASSUME LakeAssumption == Lake \cap Staged = {}

Nothing == [by |-> <<>>, size |-> 0, n |-> 0]

NoLoad == [pc |-> "none", tenant |-> <<>>, kind |-> "none", from |-> <<>>,
           seen |-> Nothing, got |-> Nothing, settled |-> FALSE]

\* The lake's objects are there from the start.
StagingInit ==
    /\ uploads = {}
    /\ \E size \in 1 .. MaxBytes :
           store = [key \in Staged \cup Lake |->
                      IF key \in Lake THEN [by |-> <<"lake">>, size |-> size, n |-> 1] ELSE Nothing]
    /\ load = NoLoad

RequestUpload ==
    \E tenant \in Tenant, file \in File \ {u.file : u \in uploads} :
        /\ uploads' = uploads \cup {[tenant |-> tenant, file |-> file, open |-> TRUE]}
        /\ UNCHANGED <<store, load>>

\* The client's PUT, which S3 takes for as long as the URL is good.
Put ==
    \E u \in uploads, size \in 1 .. MaxBytes :
        LET key == Handle(u.tenant, u.file)
        IN  /\ u.open /\ store[key].n < MaxPuts
            /\ store' = [store EXCEPT ![key] = [by |-> u.tenant, size |-> size, n |-> @.n + 1]]
            /\ UNCHANGED <<uploads, load>>

\* presign_ttl_seconds have passed.
Expire ==
    \E u \in uploads :
        /\ u.open
        /\ uploads' = (uploads \ {u}) \cup {[u EXCEPT !.open = FALSE]}
        /\ UNCHANGED <<store, load>>

\* Mutant: the prefix may end in the middle of a name.
BeginsWith(prefix, address) == Seqs!IsPrefix(prefix, address)

\* The address is the prefix, or lies under its slash.
Within(prefix, address) == Seqs!IsPrefix(prefix \o <<"/">>, address)

\* The "kind" of a source decides which check applies.
SourceAllowed(kind, tenant, address) ==
    \/ kind = "upload_handle" /\ Within(UploadsOf(tenant), address)
    \/ kind = "s3_parquet" /\ \E p \in Permitted : address = p \/ Within(p, address)

BeginLoad ==
    \E kind \in {"upload_handle", "s3_parquet"}, tenant \in Tenant, address \in Staged \cup Lake :
        /\ load.pc \notin {"head", "get"}
        /\ kind = "upload_handle" <=> address \in Staged
        /\ SourceAllowed(kind, tenant, address)              \* IngestError
        /\ load' = [NoLoad EXCEPT !.pc = "head", !.tenant = tenant, !.kind = kind,
                       !.from = address,
                       !.settled = \E u \in uploads : Handle(u.tenant, u.file) = address /\ ~u.open]
        /\ UNCHANGED <<uploads, store>>

SizeAllowed(object) == object.size <= IngestCap

\* _check_ingest_size: HEAD fails for an object that is not there.
AskSize ==
    /\ load.pc = "head"
    /\ LET object == store[load.from]
       IN  load' = IF object # Nothing /\ SizeAllowed(object)
                   THEN [load EXCEPT !.pc = "get", !.seen = object] ELSE NoLoad
    /\ UNCHANGED <<uploads, store>>

\* read_parquet_table: the whole object, into memory.
ReadObject ==
    /\ load.pc = "get"
    /\ load' = [load EXCEPT !.pc = "read", !.got = store[load.from]]
    /\ UNCHANGED <<uploads, store>>

StagingNext == RequestUpload \/ Put \/ Expire \/ BeginLoad \/ AskSize \/ ReadObject

StagingSpec == StagingInit /\ [][StagingNext]_stagingVars
-----------------------------------------------------------------------------
\* The bucket of an s3:// address: what comes before its first slash.
Bucket(address) ==
    [i \in {i \in DOMAIN address : "/" \notin {address[j] : j \in 1 .. i}} |-> address[i]]

\* An ingest reads what its own tenant uploaded, however alike the names of
\* tenants are; from the lake it reads buckets the operator named, not ones
\* whose names begin alike; and nothing over the cap, of what does not change between
\* HEAD and GET. Objects of the lake do not change here; of an upload, only
\* another PUT can bring more into the pod, and none once its URL has expired.
StagedReadsAreMeant ==
    load.pc = "read" =>
        /\ load.kind = "upload_handle" => load.got.by = load.tenant
        /\ load.kind = "s3_parquet" => \E p \in Permitted : Bucket(load.from) = Bucket(p)
        /\ load.got.size > IngestCap => ~load.settled /\ load.got.n > load.seen.n
=============================================================================
