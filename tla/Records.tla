------------------------------ MODULE Records ------------------------------
(***************************************************************************)
(* The durable application store and the audit trail: writers that change  *)
(* the desired state under an optimistic check, observers, and appends to  *)
(* the hash-chained audit log, each a transaction of several statements.   *)
(*                                                                         *)
(* PostgreSQL is modelled by what these statements use of it: a statement  *)
(* sees what is committed when it starts and what its own transaction did, *)
(* an updated row is locked to the end of its transaction, a statement on  *)
(* a locked row waits and then looks again, and a primary key is unique.   *)
(***************************************************************************)
EXTENDS Naturals, Sequences

CONSTANTS
  Writer,      \* connections
  MaxVersion,  \* bound: desired-state versions
  MaxAppend    \* bound: audit records when an append of its own starts

Table == {"application", "desired", "observed", "audit"}

VARIABLES
  version,    \* desired_states.version; 0 before the application is stored
  observed,   \* observed_states.desired_version
  events,     \* versions that have an event
  audit,      \* audit_log in sequence order: [sequence, prev, version]
  locks,      \* Table -> who holds the row (for audit: the advisory key), if anyone
  tx          \* Writer -> its transaction: [at, read, last]

records == <<version, observed, events, audit, locks, tx>>

Nobody == "nobody"

\* A connection is told apart from no connection.
ASSUME RecordsAssumption == Nobody \notin Writer

Idle == [at |-> "idle", read |-> 0, last |-> 0]

RecordsInit ==
  /\ version = 0
  /\ observed = 0
  /\ events = <<>>
  /\ audit = <<>>
  /\ locks = [t \in Table |-> Nobody]
  /\ tx = [w \in Writer |-> Idle]

-----------------------------------------------------------------------------
Free(w, t) == locks[t] \in {w, Nobody}

Released(w) == [t \in Table |-> IF locks[t] = w THEN Nobody ELSE locks[t]]

To(w, at) == tx' = [tx EXCEPT ![w].at = at]

\* The aggregate as someone read it, before anyone opens a transaction.
get_application(w) ==
  /\ tx[w].at = "idle"
  /\ version # 0
  /\ tx' = [tx EXCEPT ![w] = [at |-> "read", read |-> version, last |-> 0]]
  /\ UNCHANGED <<version, observed, events, audit, locks>>

\* Mutation of UpdateDesired: "AND version = $5" is not there.
UpdateDesiredUnchecked(w) ==
  /\ tx[w].at = "read"
  /\ tx[w].read < MaxVersion
  /\ Free(w, "desired")
  /\ locks' = [locks EXCEPT !["desired"] = w]
  /\ To(w, "update")
  /\ UNCHANGED <<version, observed, events, audit>>

\* A writer whose version is no longer the stored one gets a conflict.
UpdateDesired(w) ==
  /\ tx[w].at = "read"
  /\ tx[w].read < MaxVersion
  /\ Free(w, "desired")
  /\ IF version = tx[w].read
     THEN locks' = [locks EXCEPT !["desired"] = w] /\ To(w, "update")
     ELSE tx' = [tx EXCEPT ![w] = Idle] /\ UNCHANGED locks
  /\ UNCHANGED <<version, observed, events, audit>>

UpdateApplication(w) ==
  /\ tx[w].at = "update"
  /\ Free(w, "application")
  /\ locks' = [locks EXCEPT !["application"] = w]
  /\ To(w, "append")
  /\ UNCHANGED <<version, observed, events, audit>>

\* An append to the audit log of its own.
AuditOnly(w) ==
  /\ tx[w].at = "idle"
  /\ Len(audit) < MaxAppend
  /\ To(w, "append")
  /\ UNCHANGED <<version, observed, events, audit, locks>>

\* Mutation of AdvisoryLock: nothing is locked.
AdvisoryLockNone(w) ==
  /\ tx[w].at = "append"
  /\ To(w, "locked")
  /\ UNCHANGED <<version, observed, events, audit, locks>>

\* pg_advisory_xact_lock: held to the end of the transaction.
AdvisoryLock(w) ==
  /\ tx[w].at = "append"
  /\ Free(w, "audit")
  /\ locks' = [locks EXCEPT !["audit"] = w]
  /\ To(w, "locked")
  /\ UNCHANGED <<version, observed, events, audit>>

ReadLast(w) ==
  /\ tx[w].at = "locked"
  /\ tx' = [tx EXCEPT ![w].at = "insert", ![w].last = Len(audit)]
  /\ UNCHANGED <<version, observed, events, audit, locks>>

\* A record's digest is told apart by what the digest covers.
compute_hash(r) == <<r.sequence, r.version, r.prev>>

GENESIS == <<>>

Record(w) ==
  [sequence |-> tx[w].last + 1,
   prev |-> IF tx[w].last = 0 THEN GENESIS ELSE compute_hash(audit[tx[w].last]),
   version |-> IF tx[w].read = 0 THEN 0 ELSE tx[w].read + 1]

\* The insert and the commit that follows it; an insert under a sequence
\* that someone took fails, and the transaction with it.
Commit(w) ==
  /\ tx[w].at = "insert"
  /\ IF tx[w].last # Len(audit)
     THEN /\ To(w, "failed")
          /\ UNCHANGED <<version, events, audit>>
     ELSE /\ audit' = Append(audit, Record(w))
          /\ IF tx[w].read = 0 THEN UNCHANGED <<version, events>>
             ELSE /\ version' = tx[w].read + 1
                  /\ events' = Append(events, tx[w].read + 1)
          /\ tx' = [tx EXCEPT ![w] = Idle]
  /\ locks' = Released(w)
  /\ UNCHANGED observed

\* A crash or a lost connection rolls the transaction back.
Rollback(w) ==
  /\ tx[w].at \notin {"idle", "failed"}
  /\ tx' = [tx EXCEPT ![w] = Idle]
  /\ locks' = Released(w)
  /\ UNCHANGED <<version, observed, events, audit>>

\* record_observation: the observation, then the application's time.
ObserveRow(w) ==
  /\ tx[w].at = "read"
  /\ Free(w, "observed")
  /\ locks' = [locks EXCEPT !["observed"] = w]
  /\ To(w, "observe")
  /\ UNCHANGED <<version, observed, events, audit>>

ObserveCommit(w) ==
  /\ tx[w].at = "observe"
  /\ Free(w, "application")
  /\ observed' = tx[w].read
  /\ locks' = Released(w)
  /\ tx' = [tx EXCEPT ![w] = Idle]
  /\ UNCHANGED <<version, events, audit>>

\* save: application, desired and observed state, as the caller has them.
\* An import saves a new aggregate, under an id that no one else has.
SaveApplication(w) ==
  /\ tx[w].at = "idle" /\ version = 0
  /\ Free(w, "application")
  /\ locks' = [locks EXCEPT !["application"] = w]
  /\ tx' = [tx EXCEPT ![w].at = "save", ![w].read = 1]
  /\ UNCHANGED <<version, observed, events, audit>>

SaveCommit(w) ==
  /\ tx[w].at = "save"
  /\ Free(w, "desired") /\ Free(w, "observed")
  /\ version' = tx[w].read
  /\ observed' = tx[w].read
  /\ locks' = Released(w)
  /\ tx' = [tx EXCEPT ![w] = Idle]
  /\ UNCHANGED <<events, audit>>

RecordsNext ==
  \E w \in Writer :
    \/ get_application(w) \/ UpdateDesired(w) \/ UpdateApplication(w)
    \/ AuditOnly(w) \/ AdvisoryLock(w) \/ ReadLast(w) \/ Commit(w) \/ Rollback(w)
    \/ ObserveRow(w) \/ ObserveCommit(w)
    \/ SaveApplication(w) \/ SaveCommit(w)

-----------------------------------------------------------------------------
verify ==
  \A i \in DOMAIN audit :
    /\ audit[i].sequence = i
    /\ audit[i].prev = IF i = 1 THEN GENESIS ELSE compute_hash(audit[i - 1])

\* Where the log records a desired-state update.
Updates == {i \in DOMAIN audit : audit[i].version # 0}

(***************************************************************************)
(* A desired-state update commits together with its event and its audit    *)
(* record, and no two writers get one version: after any interleaving and  *)
(* any roll-back, the events, and the updates of the audit log, are the    *)
(* versions 2 up to the stored one, each once and in order, and the chain  *)
(* verifies.                                                               *)
(***************************************************************************)
EveryVersionIsAccounted ==
  /\ verify
  /\ Len(events) = IF version = 0 THEN 0 ELSE version - 1
  /\ \A i \in DOMAIN events : events[i] = i + 1
  /\ {audit[i].version : i \in Updates} = 2 .. version
  /\ \A i, j \in Updates : i < j => audit[i].version < audit[j].version

(***************************************************************************)
(* The advisory lock spans reading the last record and committing the      *)
(* next, so no append, and no update that carries one, is lost to another  *)
(* append that took its sequence number.                                   *)
(***************************************************************************)
NoAppendIsLost == \A w \in Writer : tx[w].at # "failed"
=============================================================================
