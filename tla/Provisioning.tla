---------------------------- MODULE Provisioning ----------------------------
(***************************************************************************)
(* The two provider adapters that provision for real, for one resource     *)
(* each: a role and a database on a PostgreSQL server, and a bucket on     *)
(* disk with a scoped key.  Credentials live in the memory of the process. *)
(*                                                                         *)
(* Workers and library callers of one process share its adapters, so calls *)
(* interleave at every await.  A statement or file operation may fail, and *)
(* one that fails may have been carried out; the process may die and start *)
(* again, with its caches empty.  A secret is told apart by its number.    *)
(***************************************************************************)
EXTENDS Naturals, FiniteSets

CONSTANTS
  Caller,    \* tasks that call an adapter
  MaxMint,   \* bound: secrets ever minted
  MaxFaults  \* bound: faults and restarts

VARIABLES
  role,         \* the password of the role, or 0
  database,     \* whether the database exists
  credential,   \* credentials: the password in memory, or 0
  bucket,       \* whether the directory exists
  scoped_key,   \* keys: [id, live]
  minted,       \* secrets minted so far
  calls,        \* Caller -> its call
  torn,         \* a delete failed or overlapped a call since the process started
  faults

server == <<role, database>>
storage == <<bucket, scoped_key>>
provisioning == <<server, credential, storage, minted, calls, torn, faults>>

NoKey == [id |-> 0, live |-> FALSE]

\* at: what the call does next.  alone: no other call on the resource so far.
NoCall == [at |-> "none", kind |-> "none", action |-> "none", secret |-> 0,
           alone |-> TRUE]

ProvisioningInit ==
  /\ role = 0 /\ database = FALSE /\ credential = 0
  /\ bucket = FALSE /\ scoped_key = NoKey
  /\ minted = 0
  /\ calls = [c \in Caller |-> NoCall]
  /\ torn = FALSE
  /\ faults = 0

-----------------------------------------------------------------------------
At(c, kind, at) == calls[c].kind = kind /\ calls[c].at = at

Running(kind) == {c \in Caller : calls[c].kind = kind}

\* The step a call begins with.
FirstStep ==
  [postgres |-> [provision |-> "role", readiness |-> "has_role",
                 adopt |-> "adopt_db", delete |-> "delete_db"],
   storage |-> [provision |-> "check", readiness |-> "ready?",
                adopt |-> "ready?", delete |-> "revoke"]]

\* execute and execute_scoped.  A delete that runs beside another call on the
\* resource leaves no telling what the cache holds.
Call(c, kind, action) ==
  /\ calls[c] = NoCall
  /\ calls' = [d \in Caller |->
                 IF d = c
                 THEN [NoCall EXCEPT !.at = FirstStep[kind][action], !.kind = kind,
                                     !.action = action, !.alone = Running(kind) = {}]
                 ELSE IF d \in Running(kind) THEN [calls[d] EXCEPT !.alone = FALSE]
                 ELSE calls[d]]
  /\ torn' = (torn \/ (/\ Running(kind) # {}
                       /\ action = "delete"
                            \/ \E d \in Running(kind) : calls[d].action = "delete"))
  /\ UNCHANGED <<server, credential, storage, minted, faults>>

Step(c, at) == calls' = [calls EXCEPT ![c].at = at]

\* The call returns: with Ready, or with Failed or an error.
Ready(c) == calls' = [calls EXCEPT ![c] = NoCall] /\ UNCHANGED torn

NotReady(c) ==
  /\ calls' = [calls EXCEPT ![c] = NoCall]
  /\ torn' = (torn \/ calls[c].action = "delete")

\* Bound: a call that may mint starts minting only below it.
Mint(c) ==
  /\ minted < MaxMint
  /\ minted' = minted + 1
  /\ calls' = [calls EXCEPT ![c].secret = minted + 1, ![c].at = "create_role"]

-----------------------------------------------------------------------------
(* PostgresProvisioner. *)

\* The two lookups of provision; the second is not made without a role.
ProvisionRole(c) ==
  /\ At(c, "postgres", "role")
  /\ IF role # 0 THEN Step(c, "database") /\ UNCHANGED minted ELSE Mint(c)
  /\ UNCHANGED <<server, credential, storage, torn, faults>>

ProvisionDatabase(c) ==
  /\ At(c, "postgres", "database")
  /\ IF database THEN Ready(c) /\ UNCHANGED minted ELSE Mint(c) /\ UNCHANGED torn
  /\ UNCHANGED <<server, credential, storage, faults>>

\* CREATE ROLE, refused when it exists.
CreateRole(c) ==
  /\ At(c, "postgres", "create_role")
  /\ IF role = 0
     THEN role' = calls[c].secret /\ Step(c, "create_database") /\ UNCHANGED torn
     ELSE NotReady(c) /\ UNCHANGED role
  /\ UNCHANGED <<database, credential, storage, minted, faults>>

\* CREATE DATABASE ... OWNER, refused when it exists or the owner does not.
CreateDatabase(c) ==
  /\ At(c, "postgres", "create_database")
  /\ IF role # 0 /\ ~database
     THEN database' = TRUE /\ Step(c, "grant") /\ UNCHANGED torn
     ELSE NotReady(c) /\ UNCHANGED database
  /\ UNCHANGED <<role, credential, storage, minted, faults>>

GrantConnect(c) ==
  /\ At(c, "postgres", "grant")
  /\ IF role # 0 /\ database THEN Step(c, "insert") /\ UNCHANGED torn ELSE NotReady(c)
  /\ UNCHANGED <<server, credential, storage, minted, faults>>

InsertCredential(c) ==
  /\ At(c, "postgres", "insert")
  /\ credential' = calls[c].secret
  /\ Ready(c)
  /\ UNCHANGED <<server, storage, minted, faults>>

readiness(c) ==
  /\ \/ /\ At(c, "postgres", "has_role")
        /\ Step(c, IF role # 0 THEN "has_db" ELSE "has_no_role")
        /\ UNCHANGED torn
     \/ /\ calls[c].at \in {"has_db", "has_no_role"}
        /\ IF calls[c].at = "has_db" /\ database THEN Ready(c) ELSE NotReady(c)
  /\ UNCHANGED <<server, credential, storage, minted, faults>>

\* Adoption never mints: it takes over what is there, or nothing.
adopt(c) ==
  /\ \/ /\ At(c, "postgres", "adopt_db")
        /\ IF database THEN Step(c, "adopt_role") /\ UNCHANGED torn ELSE NotReady(c)
     \/ /\ At(c, "postgres", "adopt_role")
        /\ IF role # 0 THEN Ready(c) ELSE NotReady(c)
  /\ UNCHANGED <<server, credential, storage, minted, faults>>

DeleteDatabase(c) ==
  /\ At(c, "postgres", "delete_db")
  /\ Step(c, IF database THEN "drop_database" ELSE "delete_role")
  /\ UNCHANGED <<server, credential, storage, minted, torn, faults>>

\* Sessions are ended first; what is gone by now cannot be dropped.
DropDatabase(c) ==
  /\ At(c, "postgres", "drop_database")
  /\ IF database
     THEN database' = FALSE /\ Step(c, "delete_role") /\ UNCHANGED torn
     ELSE NotReady(c) /\ UNCHANGED database
  /\ UNCHANGED <<role, credential, storage, minted, faults>>

\* Mutation of Forget: the credential stays in memory.
ForgetNothing(c) == UNCHANGED credential

Forget(c) == credential' = 0

DeleteRole(c) ==
  /\ At(c, "postgres", "delete_role")
  /\ IF role # 0
     THEN Step(c, "drop_role") /\ UNCHANGED <<credential, torn>>
     ELSE Forget(c) /\ Ready(c)
  /\ UNCHANGED <<server, storage, minted, faults>>

\* A role that owns a database cannot be dropped.
DropRole(c) ==
  /\ At(c, "postgres", "drop_role")
  /\ IF role # 0 /\ ~database
     THEN role' = 0 /\ Step(c, "forget") /\ UNCHANGED torn
     ELSE NotReady(c) /\ UNCHANGED role
  /\ UNCHANGED <<database, credential, storage, minted, faults>>

ForgetCredential(c) ==
  /\ At(c, "postgres", "forget")
  /\ Forget(c)
  /\ Ready(c)
  /\ UNCHANGED <<server, storage, minted, faults>>

-----------------------------------------------------------------------------
(* FsBucketBackend. *)

\* Mutation of IsLive: a key is as good as a live one.
IsCached(k) == k # NoKey

IsLive(k) == k.live

\* Idempotent while the bucket is there with a live key.
ProvisionBucket(c) ==
  /\ At(c, "storage", "check")
  /\ IF bucket /\ IsLive(scoped_key)
     THEN Ready(c) ELSE Step(c, "mkdir") /\ UNCHANGED torn
  /\ UNCHANGED <<server, credential, storage, minted, faults>>

CreateBucket(c) ==
  /\ At(c, "storage", "mkdir")
  /\ bucket' = TRUE
  /\ Step(c, "chmod")
  /\ UNCHANGED <<server, credential, scoped_key, minted, torn, faults>>

SetPermissions(c) ==
  /\ At(c, "storage", "chmod")
  /\ IF bucket THEN Step(c, "mint") /\ UNCHANGED torn ELSE NotReady(c)
  /\ UNCHANGED <<server, credential, storage, minted, faults>>

MintKey(c) ==
  /\ At(c, "storage", "mint")
  /\ minted < MaxMint
  /\ minted' = minted + 1
  /\ scoped_key' = [id |-> minted + 1, live |-> TRUE]
  /\ Ready(c)
  /\ UNCHANGED <<server, credential, bucket, faults>>

\* Readiness and adoption.
BucketReadiness(c) ==
  /\ At(c, "storage", "ready?")
  /\ IF bucket /\ IsLive(scoped_key) THEN Ready(c) ELSE NotReady(c)
  /\ UNCHANGED <<server, credential, storage, minted, faults>>

RevokeKey(c) ==
  /\ At(c, "storage", "revoke")
  /\ scoped_key' = NoKey
  /\ IF bucket THEN Step(c, "rmdir") /\ UNCHANGED torn ELSE Ready(c)
  /\ UNCHANGED <<server, credential, bucket, minted, faults>>

RemoveBucket(c) ==
  /\ At(c, "storage", "rmdir")
  /\ IF bucket THEN bucket' = FALSE /\ Ready(c) ELSE NotReady(c) /\ UNCHANGED bucket
  /\ UNCHANGED <<server, credential, scoped_key, minted, faults>>

-----------------------------------------------------------------------------
Postgres(c) ==
  \/ ProvisionRole(c) \/ ProvisionDatabase(c) \/ CreateRole(c)
  \/ CreateDatabase(c) \/ GrantConnect(c) \/ InsertCredential(c)
  \/ readiness(c) \/ adopt(c)
  \/ DeleteDatabase(c) \/ DropDatabase(c) \/ DeleteRole(c) \/ DropRole(c)
  \/ ForgetCredential(c)

Storage(c) ==
  \/ ProvisionBucket(c) \/ CreateBucket(c) \/ SetPermissions(c) \/ MintKey(c)
  \/ BucketReadiness(c) \/ RevokeKey(c) \/ RemoveBucket(c)

\* The steps that ask nothing of a server or a disk cannot fail.
InMemory == {"none", "insert", "forget", "check", "ready?", "mint", "revoke"}

\* The statement fails; whether it was carried out is not known.
Fault(c) ==
  /\ calls[c].at \notin InMemory
  /\ faults < MaxFaults
  /\ faults' = faults + 1
  /\ role' \in {role} \cup (CASE At(c, "postgres", "create_role") /\ role = 0 -> {calls[c].secret}
                              [] At(c, "postgres", "drop_role") /\ ~database -> {0}
                              [] OTHER -> {})
  /\ database' \in {database}
       \cup (CASE At(c, "postgres", "create_database") /\ role # 0 -> {TRUE}
               [] At(c, "postgres", "drop_database") -> {FALSE}
               [] OTHER -> {})
  /\ bucket' \in {bucket}
       \cup (CASE At(c, "storage", "mkdir") -> {TRUE}
               [] At(c, "storage", "rmdir") -> {FALSE}
               [] OTHER -> {})
  /\ NotReady(c)
  /\ UNCHANGED <<credential, scoped_key, minted>>

Restart ==
  /\ faults < MaxFaults
  /\ faults' = faults + 1
  /\ credential' = 0
  /\ scoped_key' = NoKey
  /\ calls' = [c \in Caller |-> NoCall]
  /\ torn' = FALSE
  /\ UNCHANGED <<server, bucket, minted>>

KeyExpires ==
  /\ scoped_key.live
  /\ scoped_key' = [scoped_key EXCEPT !.live = FALSE]
  /\ UNCHANGED <<server, credential, bucket, minted, calls, torn, faults>>

BeginCall(c, kind) ==
  \E action \in {"provision", "readiness", "adopt", "delete"} : Call(c, kind, action)

\* The adapters share nothing but the process they are in.
PostgresNext ==
  \/ \E c \in Caller : BeginCall(c, "postgres") \/ Postgres(c) \/ Fault(c)
  \/ Restart

StorageNext ==
  \/ \E c \in Caller : BeginCall(c, "storage") \/ Storage(c) \/ Fault(c)
  \/ Restart
  \/ KeyExpires

-----------------------------------------------------------------------------
\* A call that shared its resource with no other returns, and not by a fault.
Returns(c, kind, action) ==
  /\ calls[c].kind = kind /\ calls[c].action = action /\ calls[c].alone
  /\ calls'[c] = NoCall
  /\ faults' = faults

(***************************************************************************)
(* "re-run provision": whatever faults, restarts, expiries and races came  *)
(* before, a provision of a bucket that nothing disturbs ends with the     *)
(* bucket in place and a live key in memory.                               *)
(***************************************************************************)
BucketComesBack ==
  [][\A c \in Caller :
       Returns(c, "storage", "provision") => bucket' /\ scoped_key'.live]_provisioning

(***************************************************************************)
(* The credential in memory is the role's, and there is a role: a delete   *)
(* that came through alone leaves none behind, and a provision that broke  *)
(* off half-way, or was refused because another was faster, caches none.   *)
(***************************************************************************)
CachedCredentialOpens ==
  credential # 0 /\ ~torn /\ (\A c \in Caller : calls[c].action # "delete")
    => role = credential

(***************************************************************************)
(* "credential cache empty after restart; re-provision to mint a fresh     *)
(* key": a provision of a database that nothing disturbs ends with a       *)
(* credential in memory.                                                   *)
(***************************************************************************)
ProvisionMints ==
  [][\A c \in Caller :
       Returns(c, "postgres", "provision") => credential' # 0]_provisioning
=============================================================================
