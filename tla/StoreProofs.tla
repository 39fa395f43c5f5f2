---------------------------- MODULE StoreProofs -----------------------------
(***************************************************************************)
(* The stores, for any set of connections, retention passes, stages and    *)
(* references, any number of keys and any bounds: the application store    *)
(* with its audit trail, the evidence with its retention, the verifier,    *)
(* and the secret store.                                                   *)
(***************************************************************************)
EXTENDS Records, Evidence, Secrets, FiniteSetTheorems, TLAPS

-----------------------------------------------------------------------------
(***************************************************************************)
(* Retention.  A pass that has decided may delete much later, when other   *)
(* evidence is in the store.  What it holds are ids of records that are    *)
(* not failures, and ids are given out upwards and once, so nothing that   *)
(* is appended meanwhile, or that another pass keeps, is among them.       *)
(***************************************************************************)
EvidenceRecord == [id : Nat \ {0}, at : Nat, failure : BOOLEAN]

RetentionInv ==
  /\ now \in Nat
  /\ appended \subseteq EvidenceRecord /\ IsFiniteSet(appended)
  /\ store \subseteq appended
  /\ \A r \in appended : r.id <= Cardinality(appended)
  /\ \A q, r \in appended : q.id = r.id => q = r
  /\ passes \in [Pass -> SUBSET (0 .. Cardinality(appended))]
  /\ \A p \in Pass, r \in appended : r.failure => r.id \notin passes[p]
  /\ FailuresAreKept

\* What a pass decides to delete are records of the store that are not
\* blocking failures (EvidenceStore::retain).
LEMMA RetainSparesFailures ==
  ASSUME NEW s, NEW at, NEW id \in retain(s, at)
  PROVE  \E r \in s : r.id = id /\ ~r.failure
BY DEF retain, prune, Ids

\* Every append, read and deletion preserves the invariant.
LEMMA RetentionStep == RetentionInv /\ [RetentionNext]_retention => RetentionInv'
<1> SUFFICES ASSUME RetentionInv, [RetentionNext]_retention PROVE RetentionInv'
  OBVIOUS
<1>n. Cardinality(appended) \in Nat
  BY FS_CardinalityType DEF RetentionInv
<1>1. ASSUME NEW failure \in BOOLEAN, AppendEvidence(failure) PROVE RetentionInv'
  <2> DEFINE n == Cardinality(appended)
             r == [id |-> n + 1, at |-> now, failure |-> failure]
  <2>1. /\ store' = store \cup {r} /\ appended' = appended \cup {r}
        /\ now' = now /\ passes' = passes
    BY <1>1 DEF AppendEvidence
  <2>2. r \in EvidenceRecord /\ r.id = n + 1 /\ r.failure = failure
    BY <1>n DEF RetentionInv, EvidenceRecord
  <2>3. \A q \in appended : q.id \in Nat /\ q.id <= n
    BY DEF RetentionInv, EvidenceRecord
  <2> HIDE DEF r
  <2>4. r \notin appended
    BY <2>2, <2>3, <1>n
  <2>5. IsFiniteSet(appended') /\ Cardinality(appended') = n + 1
    BY <2>1, <2>4, FS_AddElement DEF RetentionInv
  <2> HIDE DEF n
  <2>n. n \in Nat
    BY <1>n DEF n
  <2>6. now' \in Nat /\ appended' \subseteq EvidenceRecord /\ store' \subseteq appended'
    BY <2>1, <2>2 DEF RetentionInv
  <2>7. \A q \in appended' : q.id <= Cardinality(appended')
    BY <2>1, <2>2, <2>3, <2>5, <2>n
  <2>8. \A q, t \in appended' : q.id = t.id => q = t
    BY <2>1, <2>2, <2>3, <2>n DEF RetentionInv
  <2>9. \A p \in Pass : passes[p] \subseteq 0 .. n
    BY DEF RetentionInv, n
  <2>10. passes' \in [Pass -> SUBSET (0 .. Cardinality(appended'))]
    <3>1. 0 .. n \subseteq 0 .. n + 1
      BY <2>n
    <3>2. QED
      BY <2>1, <2>5, <2>9, <3>1 DEF RetentionInv
  <2>11. \A p \in Pass, q \in appended' : q.failure => q.id \notin passes'[p]
    <3>1. \A p \in Pass : n + 1 \notin passes[p]
      BY <2>9, <2>n
    <3>2. QED
      BY <2>1, <2>2, <3>1 DEF RetentionInv
  <2>12. FailuresAreKept'
    BY <2>1 DEF RetentionInv, FailuresAreKept
  <2>13. QED
    BY <2>5, <2>6, <2>7, <2>8, <2>10, <2>11, <2>12 DEF RetentionInv
<1>2. ASSUME NEW p \in Pass, Decide(p) PROVE RetentionInv'
  <2> DEFINE d == retain(store, now)
  <2>1. passes' = [passes EXCEPT ![p] = d] /\ UNCHANGED <<now, store, appended>>
    BY <1>2 DEF Decide
  <2>2. \A id \in d : \E r \in store : r.id = id /\ ~r.failure
    BY RetainSparesFailures
  <2> HIDE DEF d
  <2>3. d \subseteq 0 .. Cardinality(appended)
    BY <2>2, <1>n DEF RetentionInv, EvidenceRecord
  <2>4. \A r \in appended : r.failure => r.id \notin d
    BY <2>2 DEF RetentionInv
  <2>5. passes' \in [Pass -> SUBSET (0 .. Cardinality(appended))]
    BY <2>1, <2>3 DEF RetentionInv
  <2>6. \A q \in Pass, r \in appended : r.failure => r.id \notin passes'[q]
    BY <2>1, <2>4 DEF RetentionInv
  <2>7. QED
    BY <2>1, <2>5, <2>6 DEF RetentionInv, FailuresAreKept
<1>3. ASSUME NEW p \in Pass, Delete(p) PROVE RetentionInv'
  <2>1. /\ store' = {r \in store : r.id \notin passes[p]}
        /\ passes' = [passes EXCEPT ![p] = {0}]
        /\ UNCHANGED <<now, appended>>
    BY <1>3 DEF Delete, Resting
  <2>2. FailuresAreKept' /\ store' \subseteq appended
    BY <2>1 DEF RetentionInv, FailuresAreKept
  <2>3. \A r \in appended : r.id # 0
    BY DEF RetentionInv, EvidenceRecord
  <2>4. \A q \in Pass, r \in appended : r.failure => r.id \notin passes'[q]
    BY <2>1, <2>3 DEF RetentionInv
  <2>5. passes' \in [Pass -> SUBSET (0 .. Cardinality(appended))]
    <3>1. {0} \subseteq 0 .. Cardinality(appended)
      BY <1>n
    <3>2. QED
      BY <2>1, <3>1 DEF RetentionInv
  <2>6. QED
    BY <2>1, <2>2, <2>4, <2>5, Zenon DEF RetentionInv
<1>4. CASE Tick
  BY <1>4 DEF Tick, RetentionInv, FailuresAreKept
<1>5. CASE UNCHANGED retention
  BY <1>5 DEF retention, RetentionInv, FailuresAreKept
<1>6. QED
  BY <1>1, <1>2, <1>3, <1>4, <1>5 DEF RetentionNext

\* However retention passes overlap and whatever is appended between reading
\* and deleting, no blocking failure leaves the store (PgEvidenceStore::retain).
THEOREM FailuresStay ==
  EvidenceInit /\ [][RetentionNext]_retention => []FailuresAreKept
<1>1. EvidenceInit => RetentionInv
  <2> SUFFICES ASSUME EvidenceInit PROVE RetentionInv
    OBVIOUS
  <2>1. appended = {} /\ IsFiniteSet(appended) /\ Cardinality(appended) = 0
    BY FS_EmptySet DEF EvidenceInit
  <2>2. QED
    BY <2>1 DEF EvidenceInit, RetentionInv, FailuresAreKept, Resting
<1>2. RetentionInv => FailuresAreKept
  BY DEF RetentionInv
<1>3. QED
  BY <1>1, <1>2, RetentionStep, PTL

-----------------------------------------------------------------------------
VerifierInv == verifier \in [Stage -> StageResult \cup {"none"}]

\* A result that is taken hides no failure and no other result (add_stage).
LEMMA ResultsStay ==
  ASSUME VerifierInv, [VerifierNext]_verification
  PROVE  /\ VerifierInv'
         /\ \A s \in Stage :
              /\ verifier[s] = "failed" => verifier'[s] = "failed"
              /\ verifier[s] \in {"passed", "not_applicable"} =>
                   verifier'[s] \in {verifier[s], "failed"}
<1>1. ASSUME NEW stage \in Stage, NEW result \in StageResult, add_stage(stage, result)
      PROVE  /\ VerifierInv'
             /\ \A s \in Stage :
                  /\ verifier[s] = "failed" => verifier'[s] = "failed"
                  /\ verifier[s] \in {"passed", "not_applicable"} =>
                       verifier'[s] \in {verifier[s], "failed"}
  <2>1. /\ verifier[stage] = "none" \/ {verifier[stage], result} = {"passed", "failed"}
        /\ verifier' = [verifier EXCEPT ![stage] =
                          IF verifier[stage] = "failed" THEN "failed" ELSE result]
    BY <1>1 DEF add_stage
  <2>2. verifier[stage] = "passed" => result = "failed"
    BY <2>1
  <2>3. verifier[stage] # "not_applicable"
    BY <2>1
  <2>4. QED
    BY <2>1, <2>2, <2>3 DEF VerifierInv, StageResult
<1>2. ASSUME UNCHANGED verifier
      PROVE  /\ VerifierInv'
             /\ \A s \in Stage :
                  /\ verifier[s] = "failed" => verifier'[s] = "failed"
                  /\ verifier[s] \in {"passed", "not_applicable"} =>
                       verifier'[s] \in {verifier[s], "failed"}
  BY <1>2 DEF VerifierInv
<1>3. QED
  BY <1>1, <1>2 DEF VerifierNext, record_agent_claim, verification

\* Whatever order results come in and however often, a failed verdict stays
\* failed and a passed one turns only to failed (add_stage, verdict).
THEOREM VerdictsOnlyWorsen ==
  EvidenceInit /\ [][VerifierNext]_verification => VerdictOnlyWorsens
<1>1. EvidenceInit => VerifierInv
  BY DEF EvidenceInit, VerifierInv
<1>2. VerifierInv /\ [VerifierNext]_verification => VerifierInv'
  BY ResultsStay
<1>3. VerifierInv /\ [VerifierNext]_verification =>
        [/\ verdict = "failed" => verdict' = "failed"
         /\ verdict = "passed" => verdict' # "incomplete"]_verification
  <2> SUFFICES ASSUME VerifierInv, [VerifierNext]_verification
               PROVE  /\ verdict = "failed" => verdict' = "failed"
                      /\ verdict = "passed" => verdict' # "incomplete"
    OBVIOUS
  <2>1. Failing # {} => Failing' # {}
    BY ResultsStay DEF Failing
  <2>2. missing_evidence = {} => missing_evidence' = {}
    <3> SUFFICES ASSUME missing_evidence = {}, NEW s \in Stage, is_blocking(s)
                 PROVE  verifier'[s] \notin {"none", "no_evidence"}
      BY DEF missing_evidence, is_blocking
    <3>1. verifier[s] \in {"passed", "not_applicable", "failed"}
      BY DEF VerifierInv, StageResult, missing_evidence
    <3>2. QED
      BY <3>1, ResultsStay
  <2>3. QED
    BY <2>1, <2>2 DEF verdict
<1>4. QED
  BY <1>1, <1>2, <1>3, PTL DEF VerdictOnlyWorsens

-----------------------------------------------------------------------------
Secret == [version : Nat, production : BOOLEAN, key : 0 .. MaxKey]

SecretsInv ==
  /\ master_key \in 1 .. MaxKey
  /\ secrets \in [Ref -> Secret]
  /\ StoredSecretsOpen

\* A secret sealed now opens under the active key (put, replace, rotate).
LEMMA SealKeeps ==
  ASSUME SecretsInv, NEW ref \in Ref, NEW production \in BOOLEAN,
         secrets' = [secrets EXCEPT ![ref] = Sealed(ref, production)],
         UNCHANGED master_key
  PROVE  SecretsInv'
<1>1. /\ Sealed(ref, production) \in Secret
      /\ Sealed(ref, production).key = master_key
  BY SecretsAssumption DEF SecretsInv, Sealed, Secret
<1>2. QED
  BY <1>1 DEF SecretsInv, StoredSecretsOpen, Stored

\* A rotation of the key reseals everything or nothing (rotate_key).
LEMMA RotationKeeps ==
  ASSUME SecretsInv, NEW approved \in BOOLEAN, rotate_key(approved)
  PROVE  SecretsInv'
<1>1. master_key' = master_key + 1 /\ master_key' \in 1 .. MaxKey
  <2>1. master_key < MaxKey /\ master_key' = master_key + 1
    BY Zenon DEF rotate_key
  <2>2. QED
    BY <2>1, SecretsAssumption DEF SecretsInv
<1>2. ASSUME NEW r \in Ref
      PROVE  /\ secrets'[r] \in Secret
             /\ secrets'[r] = NoSecret \/ secrets'[r].key = master_key'
  <2>1. CASE r \in Stored
    <3>1. secrets'[r] = [secrets[r] EXCEPT !.version = @ + 1, !.key = master_key + 1]
      BY <2>1, Zenon DEF rotate_key
    <3>2. secrets[r] \in Secret /\ secrets[r].version + 1 \in Nat
      BY DEF SecretsInv, Secret
    <3>3. master_key + 1 \in 0 .. MaxKey
      BY <1>1, SecretsAssumption
    <3>4. QED
      BY <3>1, <3>2, <3>3, <1>1, Zenon DEF Secret
  <2>2. CASE r \notin Stored
    <3>1. secrets'[r] = NoSecret
      BY <2>2, Zenon DEF rotate_key
    <3>2. QED
      BY <3>1, SecretsAssumption DEF NoSecret, Secret
  <2>3. QED
    BY <2>1, <2>2
<1>3. DOMAIN secrets' = Ref /\ secrets' = [r \in Ref |-> secrets'[r]]
  BY Zenon DEF rotate_key
<1>4. QED
  BY <1>1, <1>2, <1>3 DEF SecretsInv, StoredSecretsOpen, Stored

\* Every operation of the secret store preserves the invariant.
LEMMA SecretsStep == SecretsInv /\ [SecretsNext]_secret_vars => SecretsInv'
<1> SUFFICES ASSUME SecretsInv, [SecretsNext]_secret_vars PROVE SecretsInv'
  OBVIOUS
<1>1. ASSUME NEW ref \in Ref, NEW production \in BOOLEAN, NEW approved \in BOOLEAN,
             put(ref, production) \/ replace(ref, production, approved)
      PROVE  SecretsInv'
  BY <1>1, SealKeeps DEF put, replace
<1>2. ASSUME NEW ref \in Ref, NEW approved \in BOOLEAN, rotate(ref, approved)
      PROVE  SecretsInv'
  <2>1. secrets[ref].production \in BOOLEAN
    BY DEF SecretsInv, Secret
  <2>2. QED
    BY <1>2, <2>1, SealKeeps, Zenon DEF rotate
<1>3. ASSUME NEW ref \in Ref, delete(ref) PROVE SecretsInv'
  <2>1. NoSecret \in Secret
    BY SecretsAssumption DEF NoSecret, Secret
  <2>2. secrets' = [secrets EXCEPT ![ref] = NoSecret] /\ UNCHANGED master_key
    BY <1>3 DEF delete
  <2>3. QED
    BY <2>1, <2>2 DEF SecretsInv, StoredSecretsOpen, Stored
<1>4. ASSUME NEW ref \in Ref, Damage(ref) PROVE SecretsInv'
  <2> DEFINE s == [secrets[ref] EXCEPT !.key = Damaged]
  <2>1. s \in Secret /\ s.key = Damaged
    BY SecretsAssumption DEF SecretsInv, Secret, Damaged
  <2>2. secrets' = [secrets EXCEPT ![ref] = s] /\ UNCHANGED master_key
    BY <1>4 DEF Damage
  <2> HIDE DEF s
  <2>3. QED
    BY <2>1, <2>2 DEF SecretsInv, StoredSecretsOpen, Stored
<1>5. CASE UNCHANGED secret_vars
  BY <1>5 DEF secret_vars, SecretsInv, StoredSecretsOpen, Stored
<1>6. QED
  BY <1>1, <1>2, <1>3, <1>4, <1>5, RotationKeeps DEF SecretsNext

\* Through every rotation that succeeds or is refused, what is stored and was
\* not damaged opens under the active key (rotate_key).
THEOREM SecretsKeepOpening ==
  SecretsInit /\ [][SecretsNext]_secret_vars => []StoredSecretsOpen
<1>1. SecretsInit => SecretsInv
  BY SecretsAssumption DEF SecretsInit, SecretsInv, Secret, NoSecret, StoredSecretsOpen,
     Stored
<1>2. SecretsInv => StoredSecretsOpen
  BY DEF SecretsInv
<1>3. QED
  BY <1>1, <1>2, SecretsStep, PTL

-----------------------------------------------------------------------------
(***************************************************************************)
(* The application store and the audit trail.  A row lock is held to the   *)
(* end of the transaction that took it, so a writer past the optimistic    *)
(* check knows that the version it read is still the stored one, and a     *)
(* writer past the advisory lock that the record it read is still the last *)
(* one.  Neither can be said of a writer before its lock; that is why the  *)
(* invariant follows each transaction from statement to statement.         *)
(***************************************************************************)
Statement ==
  { "idle", "read", "update", "append", "locked", "insert", "observe", "save" }

Transaction == [at : Statement, read : Nat, last : Nat]

RecordsTypes ==
  /\ version \in Nat
  /\ observed \in Nat
  /\ events \in Seq(Nat)
  /\ audit \in Seq({audit[i] : i \in DOMAIN audit})
  /\ locks \in [Table -> Writer \cup {Nobody}]
  /\ tx \in [Writer -> Transaction]

\* A writer in a transaction that carries a desired-state update.
Updating(w) ==
  \/ tx[w].at = "update"
  \/ tx[w].at \in {"append", "locked", "insert"} /\ tx[w].read # 0

\* What a writer may count on at its next statement.
Knows(w) ==
  /\ tx[w].at = "idle" => tx[w].read = 0
  /\ tx[w].at \in {"read", "update", "observe"} => tx[w].read # 0
  /\ tx[w].at = "read" => version # 0
  /\ Updating(w) => locks["desired"] = w /\ version = tx[w].read
  /\ tx[w].at \in {"locked", "insert"} => locks["audit"] = w
  /\ tx[w].at = "insert" => tx[w].last = Len(audit)
  /\ tx[w].at = "save" => locks["application"] = w /\ version = 0 /\ tx[w].read = 1

RecordsInv ==
  /\ RecordsTypes
  /\ \A w \in Writer : Knows(w)
  /\ EveryVersionIsAccounted

\* A statement of one writer that takes free locks or gives back its own, and
\* leaves the version and the log alone, leaves the others what they know.
LEMMA OthersKnow ==
  ASSUME RecordsInv, NEW w \in Writer, NEW t \in Transaction,
         tx' = [tx EXCEPT ![w] = t],
         locks' \in [Table -> Writer \cup {Nobody}],
         \A row \in Table : locks[row] \in Writer \ {w} => locks'[row] = locks[row],
         Knows(w)', observed' \in Nat, UNCHANGED <<version, events, audit>>
  PROVE  RecordsInv'
<1>1. RecordsTypes'
  BY DEF RecordsInv, RecordsTypes
<1>2. ASSUME NEW u \in Writer PROVE Knows(u)'
  <2>1. CASE u = w
    BY <2>1
  <2>2. CASE u # w
    <3>1. tx'[u] = tx[u]
      BY <2>2 DEF RecordsInv, RecordsTypes
    <3>2. \A row \in {"desired", "audit", "application"} : locks[row] = u => locks'[row] = u
      BY <2>2 DEF Table
    <3>3. Knows(u)
      BY DEF RecordsInv
    <3>4. QED
      BY <3>1, <3>2, <3>3, Zenon DEF Knows, Updating
  <2>3. QED
    BY <2>1, <2>2
<1>3. EveryVersionIsAccounted'
  BY DEF RecordsInv, EveryVersionIsAccounted, verify, Updates
<1>4. QED
  BY <1>1, <1>2, <1>3 DEF RecordsInv

\* Taking a lock that is free, and giving back those of a transaction.
LEMMA LocksMove ==
  ASSUME RecordsInv, NEW w \in Writer
  PROVE  /\ \A row \in Table : Free(w, row) =>
              /\ [locks EXCEPT ![row] = w] \in [Table -> Writer \cup {Nobody}]
              /\ \A r \in Table : locks[r] \in Writer \ {w} =>
                   [locks EXCEPT ![row] = w][r] = locks[r]
         /\ Released(w) \in [Table -> Writer \cup {Nobody}]
         /\ \A r \in Table : locks[r] \in Writer \ {w} => Released(w)[r] = locks[r]
<1>1. locks \in [Table -> Writer \cup {Nobody}]
  BY DEF RecordsInv, RecordsTypes
<1>2. ASSUME NEW row \in Table, Free(w, row)
      PROVE  /\ [locks EXCEPT ![row] = w] \in [Table -> Writer \cup {Nobody}]
             /\ \A r \in Table : locks[r] \in Writer \ {w} =>
                  [locks EXCEPT ![row] = w][r] = locks[r]
  BY <1>1, <1>2, RecordsAssumption DEF Free
<1>3. /\ Released(w) \in [Table -> Writer \cup {Nobody}]
      /\ \A r \in Table : locks[r] \in Writer \ {w} => Released(w)[r] = locks[r]
  BY <1>1 DEF Released
<1>4. QED
  BY <1>2, <1>3

\* The next statement of a transaction, as a transaction.
LEMMA Moves ==
  ASSUME RecordsInv, NEW w \in Writer, NEW at \in Statement, To(w, at)
  PROVE  \E t \in Transaction : /\ tx' = [tx EXCEPT ![w] = t] /\ tx'[w] = t
                                /\ t.at = at /\ t.read = tx[w].read
<1> DEFINE t == [tx[w] EXCEPT !.at = at]
<1>1. tx' = [tx EXCEPT ![w] = t]
  BY DEF To
<1>2. tx[w] \in Transaction /\ tx \in [Writer -> Transaction]
  BY DEF RecordsInv, RecordsTypes
<1>3. t \in Transaction /\ t.at = at /\ t.read = tx[w].read /\ t.last = tx[w].last
  BY <1>2 DEF Transaction
<1> HIDE DEF t
<1>4. tx'[w] = t
  BY <1>1, <1>2
<1>5. QED
  BY <1>1, <1>3, <1>4, Zenon

\* A writer outside a transaction has read nothing.
LEMMA IdleIsTransaction == Idle \in Transaction /\ Idle.at = "idle" /\ Idle.read = 0
BY DEF Idle, Transaction, Statement

\* A transaction that ends without a commit (a conflict, a roll-back).
LEMMA EndKnows ==
  ASSUME RecordsInv, NEW w \in Writer, tx' = [tx EXCEPT ![w] = Idle]
  PROVE  Knows(w)'
<1>1. tx'[w] = Idle
  BY DEF RecordsInv, RecordsTypes
<1>2. QED
  BY <1>1, IdleIsTransaction, Zenon DEF Knows, Updating

\* The statements before a commit (get, update_desired_state, append_audit,
\* record_observation, save).
LEMMA StatementStep ==
  ASSUME RecordsInv, NEW w \in Writer,
         \/ get_application(w) \/ UpdateDesired(w) \/ UpdateApplication(w)
         \/ AuditOnly(w) \/ AdvisoryLock(w) \/ ReadLast(w) \/ Rollback(w)
         \/ ObserveRow(w) \/ ObserveCommit(w) \/ SaveApplication(w)
  PROVE  RecordsInv'
<1>t. /\ tx[w] \in Transaction /\ tx \in [Writer -> Transaction]
      /\ version \in Nat /\ observed \in Nat
      /\ locks \in [Table -> Writer \cup {Nobody}] /\ Len(audit) \in Nat
  BY DEF RecordsInv, RecordsTypes
<1>k. Knows(w)
  BY DEF RecordsInv
<1>s. "desired" \in Table /\ "application" \in Table /\ "audit" \in Table /\ "observed" \in Table
  BY DEF Table
<1>1. CASE get_application(w)
  <2> DEFINE t == [at |-> "read", read |-> version, last |-> 0]
  <2>1. t \in Transaction /\ t.at = "read" /\ t.read = version
    BY <1>t DEF Transaction, Statement
  <2>2. tx' = [tx EXCEPT ![w] = t] /\ version # 0 /\ UNCHANGED <<version, observed, events, audit, locks>>
    BY <1>1, Zenon DEF get_application
  <2> HIDE DEF t
  <2>3. tx'[w] = t
    BY <2>2, <1>t, Zenon
  <2>4. Knows(w)'
    BY <2>1, <2>2, <2>3, Zenon DEF Knows, Updating
  <2>5. QED
    BY <2>1, <2>2, <2>4, <1>t, OthersKnow, Zenon
<1>2. CASE UpdateDesired(w)
  <2>1. CASE version = tx[w].read
    <3>1. /\ To(w, "update") /\ locks' = [locks EXCEPT !["desired"] = w] /\ Free(w, "desired")
          /\ tx[w].read # 0 /\ UNCHANGED <<version, observed, events, audit>>
      BY <1>2, <2>1, <1>k, Zenon DEF UpdateDesired, Knows
    <3>2. PICK t \in Transaction : /\ tx' = [tx EXCEPT ![w] = t] /\ tx'[w] = t
                                   /\ t.at = "update" /\ t.read = tx[w].read
      BY <3>1, Moves, Zenon DEF Statement
    <3>3. locks'["desired"] = w
      BY <3>1, <1>t, <1>s, Zenon
    <3>4. Knows(w)'
      BY <2>1, <3>1, <3>2, <3>3, Zenon DEF Knows, Updating
    <3>5. QED
      BY <3>1, <3>2, <3>4, <1>t, <1>s, LocksMove, OthersKnow, Zenon
  <2>2. CASE version # tx[w].read
    <3>1. tx' = [tx EXCEPT ![w] = Idle] /\ UNCHANGED <<version, observed, events, audit, locks>>
      BY <1>2, <2>2, Zenon DEF UpdateDesired
    <3>2. QED
      BY <3>1, <1>t, IdleIsTransaction, EndKnows, OthersKnow, Zenon
  <2>3. QED
    BY <2>1, <2>2
<1>3. CASE UpdateApplication(w)
  <2>1. /\ To(w, "append") /\ locks' = [locks EXCEPT !["application"] = w]
        /\ Free(w, "application") /\ tx[w].at = "update"
        /\ UNCHANGED <<version, observed, events, audit>>
    BY <1>3, Zenon DEF UpdateApplication
  <2>2. PICK t \in Transaction : /\ tx' = [tx EXCEPT ![w] = t] /\ tx'[w] = t
                                 /\ t.at = "append" /\ t.read = tx[w].read
    BY <2>1, Moves, Zenon DEF Statement
  <2>3. locks'["desired"] = locks["desired"]
    BY <2>1, <1>t, <1>s
  <2>4. Knows(w)'
    BY <1>k, <2>1, <2>2, <2>3, Zenon DEF Knows, Updating
  <2>5. QED
    BY <2>1, <2>2, <2>4, <1>t, <1>s, LocksMove, OthersKnow, Zenon
<1>4. CASE AuditOnly(w)
  <2>1. To(w, "append") /\ tx[w].at = "idle" /\ UNCHANGED <<version, observed, events, audit, locks>>
    BY <1>4, Zenon DEF AuditOnly
  <2>2. PICK t \in Transaction : /\ tx' = [tx EXCEPT ![w] = t] /\ tx'[w] = t
                                 /\ t.at = "append" /\ t.read = tx[w].read
    BY <2>1, Moves, Zenon DEF Statement
  <2>3. Knows(w)'
    BY <1>k, <2>1, <2>2, Zenon DEF Knows, Updating
  <2>4. QED
    BY <2>1, <2>2, <2>3, <1>t, OthersKnow, Zenon
<1>5. CASE AdvisoryLock(w)
  <2>1. /\ To(w, "locked") /\ locks' = [locks EXCEPT !["audit"] = w]
        /\ Free(w, "audit") /\ tx[w].at = "append"
        /\ UNCHANGED <<version, observed, events, audit>>
    BY <1>5, Zenon DEF AdvisoryLock
  <2>2. PICK t \in Transaction : /\ tx' = [tx EXCEPT ![w] = t] /\ tx'[w] = t
                                 /\ t.at = "locked" /\ t.read = tx[w].read
    BY <2>1, Moves, Zenon DEF Statement
  <2>3. locks'["desired"] = locks["desired"] /\ locks'["audit"] = w
    BY <2>1, <1>t, <1>s, Zenon
  <2>4. Knows(w)'
    BY <1>k, <2>1, <2>2, <2>3, Zenon DEF Knows, Updating
  <2>5. QED
    BY <2>1, <2>2, <2>4, <1>t, <1>s, LocksMove, OthersKnow, Zenon
<1>6. CASE ReadLast(w)
  <2> DEFINE t == [tx[w] EXCEPT !.at = "insert", !.last = Len(audit)]
  <2>1. /\ tx' = [tx EXCEPT ![w] = t] /\ tx[w].at = "locked"
        /\ UNCHANGED <<version, observed, events, audit, locks>>
    BY <1>6, Zenon DEF ReadLast
  <2>2. /\ t \in Transaction
        /\ t.at = "insert" /\ t.read = tx[w].read /\ t.last = Len(audit)
    BY <1>t, Zenon DEF Transaction, Statement
  <2> HIDE DEF t
  <2>3. tx'[w] = t
    BY <2>1, <1>t
  <2>4. Knows(w)'
    BY <1>k, <2>1, <2>2, <2>3, Zenon DEF Knows, Updating
  <2>5. QED
    BY <2>1, <2>2, <2>4, <1>t, OthersKnow, Zenon
<1>7. CASE Rollback(w)
  <2>1. /\ tx' = [tx EXCEPT ![w] = Idle] /\ locks' = Released(w)
        /\ UNCHANGED <<version, observed, events, audit>>
    BY <1>7 DEF Rollback
  <2>2. QED
    <3>1. Knows(w)'
      BY <2>1, EndKnows, Zenon
    <3>2. QED
      BY <2>1, <3>1, <1>t, IdleIsTransaction, LocksMove, OthersKnow, Zenon
<1>8. CASE ObserveRow(w)
  <2>1. /\ To(w, "observe") /\ locks' = [locks EXCEPT !["observed"] = w]
        /\ Free(w, "observed") /\ tx[w].at = "read"
        /\ UNCHANGED <<version, observed, events, audit>>
    BY <1>8, Zenon DEF ObserveRow
  <2>2. PICK t \in Transaction : /\ tx' = [tx EXCEPT ![w] = t] /\ tx'[w] = t
                                 /\ t.at = "observe" /\ t.read = tx[w].read
    BY <2>1, Moves, Zenon DEF Statement
  <2>3. Knows(w)'
    BY <1>k, <2>1, <2>2, Zenon DEF Knows, Updating
  <2>4. QED
    BY <2>1, <2>2, <2>3, <1>t, <1>s, LocksMove, OthersKnow, Zenon
<1>9. CASE ObserveCommit(w)
  <2>1. /\ tx' = [tx EXCEPT ![w] = Idle] /\ locks' = Released(w)
        /\ observed' = tx[w].read /\ UNCHANGED <<version, events, audit>>
    BY <1>9, Zenon DEF ObserveCommit
  <2>2. observed' \in Nat
    BY <2>1, <1>t, Zenon DEF Transaction
  <2>3. QED
    BY <2>1, <2>2, IdleIsTransaction, EndKnows, LocksMove, OthersKnow, Zenon
<1>10. CASE SaveApplication(w)
  <2> DEFINE t == [tx[w] EXCEPT !.at = "save", !.read = 1]
  <2>1. /\ tx' = [tx EXCEPT ![w] = t] /\ version = 0 /\ Free(w, "application")
        /\ locks' = [locks EXCEPT !["application"] = w]
        /\ UNCHANGED <<version, observed, events, audit>>
    BY <1>10, Zenon DEF SaveApplication
  <2>2. t \in Transaction /\ t.at = "save" /\ t.read = 1
    BY <1>t, Zenon DEF Transaction, Statement
  <2> HIDE DEF t
  <2>3. tx'[w] = t /\ locks'["application"] = w
    BY <2>1, <1>t, <1>s, Zenon
  <2>4. Knows(w)'
    BY <2>1, <2>2, <2>3, Zenon DEF Knows, Updating
  <2>5. QED
    BY <2>1, <2>2, <2>4, <1>t, <1>s, LocksMove, OthersKnow, Zenon
<1>11. QED
  BY <1>1, <1>2, <1>3, <1>4, <1>5, <1>6, <1>7, <1>8, <1>9, <1>10

\* A record that is appended keeps the chain and is the only change of it.
LEMMA AppendKeeps ==
  ASSUME RecordsInv, NEW r, audit' = Append(audit, r)
  PROVE  /\ audit' \in Seq({audit'[i] : i \in DOMAIN audit'})
         /\ Len(audit') = Len(audit) + 1 /\ Len(audit) \in Nat
         /\ DOMAIN audit' = 1 .. Len(audit) + 1 /\ DOMAIN audit = 1 .. Len(audit)
         /\ \A i \in 1 .. Len(audit) : audit'[i] = audit[i]
         /\ audit'[Len(audit) + 1] = r
<1> DEFINE S == {audit[i] : i \in DOMAIN audit} \cup {r}
           n == Len(audit)
<1>1. audit \in Seq({audit[i] : i \in DOMAIN audit})
  BY DEF RecordsInv, RecordsTypes
<1>2. audit \in Seq(S) /\ r \in S
  BY <1>1
<1> HIDE DEF S
<1>3. n \in Nat /\ DOMAIN audit = 1 .. n
  BY <1>2
<1>4. /\ audit' \in Seq(S) /\ Len(audit') = n + 1
      /\ \A i \in 1 .. n : audit'[i] = audit[i]
      /\ audit'[n + 1] = r
  BY <1>2, <1>3
<1>5. DOMAIN audit' = 1 .. n + 1
  BY <1>4, <1>3
<1> HIDE DEF n
<1>6. audit' \in Seq({audit'[i] : i \in DOMAIN audit'})
  <2>1. \A i \in 1 .. n + 1 : audit'[i] \in {audit'[j] : j \in DOMAIN audit'}
    BY <1>5, Zenon
  <2>2. QED
    BY <1>3, <1>4, <1>5, <2>1
<1>7. QED
  BY <1>3, <1>4, <1>5, <1>6, Zenon DEF n

\* The chain verifies after an insert under the sequence number that follows
\* the last record (append_audit, AuditLog::verify).
LEMMA ChainGrows ==
  ASSUME RecordsInv, NEW w \in Writer, tx[w].last = Len(audit),
         audit' = Append(audit, Record(w))
  PROVE  verify'
<1> DEFINE n == Len(audit)
<1>1. /\ n \in Nat /\ DOMAIN audit' = 1 .. n + 1 /\ DOMAIN audit = 1 .. n
      /\ \A i \in 1 .. n : audit'[i] = audit[i]
      /\ audit'[n + 1] = Record(w)
  BY AppendKeeps, Zenon
<1>2. /\ Record(w).sequence = n + 1
      /\ Record(w).prev = IF n = 0 THEN GENESIS ELSE compute_hash(audit[n])
  BY Zenon DEF Record
<1>3. \A i \in 1 .. n :
        /\ audit[i].sequence = i
        /\ audit[i].prev = IF i = 1 THEN GENESIS ELSE compute_hash(audit[i - 1])
  BY <1>1, Zenon DEF RecordsInv, EveryVersionIsAccounted, verify
<1> HIDE DEF n
<1>4. ASSUME NEW i \in 1 .. n + 1
      PROVE  /\ audit'[i].sequence = i
             /\ audit'[i].prev = IF i = 1 THEN GENESIS ELSE compute_hash(audit'[i - 1])
  <2>1. CASE i = n + 1
    <3>1. n # 0 => audit'[n] = audit[n] /\ i - 1 = n
      BY <1>1, <2>1
    <3>2. n = 0 <=> i = 1
      BY <1>1, <2>1
    <3>3. QED
      BY <1>1, <1>2, <2>1, <3>1, <3>2, Zenon
  <2>2. CASE i # n + 1
    <3>1. i \in 1 .. n /\ (i # 1 => i - 1 \in 1 .. n)
      BY <1>1, <2>2
    <3>2. audit'[i] = audit[i] /\ (i # 1 => audit'[i - 1] = audit[i - 1])
      BY <1>1, <3>1, Zenon
    <3>3. QED
      BY <1>3, <3>1, <3>2, Zenon
  <2>3. QED
    BY <2>1, <2>2, Zenon
<1>5. QED
  BY <1>1, <1>4, Zenon DEF verify, compute_hash, GENESIS

\* The update, its event and its audit record are one commit (Commit), and
\* the version it stores is the one after the version it checked.
LEMMA CommitAccounts ==
  ASSUME RecordsInv, NEW w \in Writer, Commit(w)
  PROVE  /\ EveryVersionIsAccounted'
         /\ version' \in Nat /\ (version' # 0 <=> version # 0)
         /\ events' \in Seq(Nat)
         /\ audit' = Append(audit, Record(w))
         /\ tx' = [tx EXCEPT ![w] = Idle]
         /\ tx[w].read = 0 => version' = version
<1> DEFINE n == Len(audit)
<1>t. /\ tx[w] \in Transaction /\ tx[w].read \in Nat /\ version \in Nat
      /\ events \in Seq(Nat)
  BY Zenon DEF RecordsInv, RecordsTypes, Transaction
<1>k. Knows(w) /\ tx[w].at = "insert" /\ tx[w].last = n
  BY Zenon DEF RecordsInv, Knows, Commit
<1>1. /\ audit' = Append(audit, Record(w))
      /\ tx' = [tx EXCEPT ![w] = Idle]
      /\ tx[w].read = 0 => version' = version /\ events' = events
      /\ tx[w].read # 0 => version' = tx[w].read + 1 /\ events' = Append(events, tx[w].read + 1)
  BY <1>k, Zenon DEF Commit
<1>2. /\ n \in Nat /\ DOMAIN audit' = 1 .. n + 1 /\ DOMAIN audit = 1 .. n
      /\ \A i \in 1 .. n : audit'[i] = audit[i]
      /\ audit'[n + 1] = Record(w)
  BY <1>1, AppendKeeps, Zenon
<1>3. verify'
  BY <1>1, <1>k, ChainGrows, Zenon
<1>4. Record(w).version = IF tx[w].read = 0 THEN 0 ELSE tx[w].read + 1
  BY Zenon DEF Record
<1>a. /\ Len(events) = IF version = 0 THEN 0 ELSE version - 1
      /\ \A i \in DOMAIN events : events[i] = i + 1
      /\ {audit[i].version : i \in Updates} = 2 .. version
      /\ \A i, j \in Updates : i < j => audit[i].version < audit[j].version
  BY Zenon DEF RecordsInv, EveryVersionIsAccounted
<1>u. Updates \subseteq 1 .. n
  BY <1>2, Zenon DEF Updates
<1> HIDE DEF n
<1>5. CASE tx[w].read = 0
  <2>1. Updates' = Updates
    BY <1>2, <1>4, <1>5 DEF Updates
  <2>2. \A i \in Updates : audit'[i] = audit[i]
    BY <1>2, <1>u, Zenon
  <2>3. {audit'[i].version : i \in Updates'} = {audit[i].version : i \in Updates}
    BY <2>1, <2>2, Zenon
  <2>4. \A i, j \in Updates' : i < j => audit'[i].version < audit'[j].version
    BY <2>1, <2>2, <1>a, Zenon
  <2>5. EveryVersionIsAccounted'
    BY <1>1, <1>3, <1>5, <1>a, <2>3, <2>4, Zenon DEF EveryVersionIsAccounted
  <2>6. QED
    BY <1>1, <1>5, <1>t, <2>5, Zenon
<1>6. CASE tx[w].read # 0
  <2>1. tx[w].read = version /\ version # 0
    BY <1>k, <1>6, Zenon DEF Knows, Updating
  <2>2. version' = version + 1 /\ events' = Append(events, version + 1)
    BY <1>1, <1>6, <2>1, Zenon
  <2>3. /\ events' \in Seq(Nat) /\ Len(events) = version - 1 /\ Len(events') = version
        /\ \A i \in DOMAIN events' : events'[i] = i + 1
    <3>1. /\ events' \in Seq(Nat) /\ Len(events') = Len(events) + 1
          /\ DOMAIN events' = 1 .. Len(events) + 1
          /\ \A i \in 1 .. Len(events) : events'[i] = events[i]
          /\ events'[Len(events) + 1] = version + 1
      BY <2>2, <1>t
    <3>2. Len(events) = version - 1 /\ DOMAIN events = 1 .. Len(events)
      BY <1>a, <1>t, <2>1
    <3>3. ASSUME NEW i \in DOMAIN events' PROVE events'[i] = i + 1
      <4>1. CASE i = Len(events) + 1
        BY <3>1, <3>2, <4>1, <1>t
      <4>2. CASE i \in DOMAIN events
        BY <3>1, <3>2, <4>2, <1>a, Zenon
      <4>3. i = Len(events) + 1 \/ i \in DOMAIN events
        BY <3>1, <3>2
      <4>4. QED
        BY <4>1, <4>2, <4>3, Zenon
    <3>4. QED
      BY <3>1, <3>2, <3>3, <1>t
  <2>4. audit'[n + 1].version = version + 1
    BY <1>2, <1>4, <1>6, <2>1, Zenon
  <2>5. Updates' = Updates \cup {n + 1}
    BY <1>2, <2>4, <1>t DEF Updates
  <2>6. \A i \in Updates : audit'[i] = audit[i] /\ audit[i].version \in 2 .. version
    BY <1>2, <1>u, <1>a, Zenon
  <2>7. {audit'[i].version : i \in Updates'} = 2 .. version'
    <3>1. {audit'[i].version : i \in Updates'} = {audit[i].version : i \in Updates} \cup {version + 1}
      BY <2>4, <2>5, <2>6, Zenon
    <3>2. 2 .. version' = (2 .. version) \cup {version + 1}
      BY <2>1, <2>2, <1>t
    <3>3. QED
      BY <3>1, <3>2, <1>a, Zenon
  <2>8. ASSUME NEW i \in Updates', NEW j \in Updates', i < j
        PROVE  audit'[i].version < audit'[j].version
    <3>1. i \in Updates
      BY <2>5, <2>8, <1>u, <1>2
    <3>2. CASE j = n + 1
      BY <3>1, <3>2, <2>4, <2>6, <1>t
    <3>3. CASE j \in Updates
      BY <3>1, <3>3, <2>6, <2>8, <1>a, Zenon
    <3>4. QED
      BY <3>2, <3>3, <2>5, Zenon
  <2>9. EveryVersionIsAccounted'
    BY <1>3, <1>t, <2>1, <2>2, <2>3, <2>7, <2>8 DEF EveryVersionIsAccounted
  <2>10. QED
    BY <1>1, <1>6, <1>t, <2>1, <2>2, <2>3, <2>9
<1>7. QED
  BY <1>5, <1>6, Zenon

\* A commit ends a transaction that held the rows it changed, so no other
\* transaction that counts on them is open (update_desired_state, save).
LEMMA CommitStep ==
  ASSUME RecordsInv, NEW w \in Writer, Commit(w) \/ SaveCommit(w)
  PROVE  RecordsInv'
<1>t. /\ locks \in [Table -> Writer \cup {Nobody}] /\ tx \in [Writer -> Transaction]
      /\ version \in Nat /\ observed \in Nat
  BY Zenon DEF RecordsInv, RecordsTypes
<1>l. /\ locks' = Released(w) /\ tx' = [tx EXCEPT ![w] = Idle]
      /\ locks' \in [Table -> Writer \cup {Nobody}]
      /\ \A row \in Table : locks[row] \in Writer \ {w} => locks'[row] = locks[row]
  BY LocksMove, CommitAccounts DEF Commit, SaveCommit
<1>i. tx' \in [Writer -> Transaction] /\ Knows(w)'
  BY <1>l, <1>t, IdleIsTransaction, EndKnows, Zenon
<1>o. ASSUME NEW u \in Writer, u # w
      PROVE  /\ tx'[u] = tx[u] /\ Knows(u)
             /\ \A row \in {"desired", "audit", "application"} :
                  locks[row] = u => locks'[row] = u
  BY <1>t, <1>l, <1>o, Zenon DEF RecordsInv, Table
<1>1. CASE Commit(w)
  <2>1. Knows(w) /\ tx[w].at = "insert" /\ UNCHANGED observed
    BY <1>1, Zenon DEF RecordsInv, Commit
  <2>2. /\ version' \in Nat /\ (version' # 0 <=> version # 0)
        /\ tx[w].read = 0 => version' = version
        /\ audit' = Append(audit, Record(w))
    BY <1>1, CommitAccounts, Zenon
  <2>3. locks["audit"] = w /\ (version' # version => locks["desired"] = w /\ version # 0)
    BY <2>1, <2>2, Zenon DEF Knows, Updating
  <2>4. ASSUME NEW u \in Writer, u # w PROVE Knows(u)'
    <3>1. tx[u].at \notin {"locked", "insert"}
      BY <1>o, <2>3, <2>4, Zenon DEF Knows
    <3>2. Updating(u) => version' = version
      BY <1>o, <2>3, <2>4, Zenon DEF Knows
    <3>3. tx[u].at = "save" => version' = 0
      BY <1>o, <2>2, <2>4, Zenon DEF Knows
    <3>4. QED
      BY <1>o, <2>2, <2>4, <3>1, <3>2, <3>3 DEF Knows, Updating
  <2>5. RecordsTypes'
    BY <1>1, <1>l, <1>i, <1>t, <2>1, <2>2, CommitAccounts, AppendKeeps, Zenon DEF RecordsTypes
  <2>6. QED
    BY <1>1, <1>i, <2>4, <2>5, CommitAccounts, Zenon DEF RecordsInv
<1>2. CASE SaveCommit(w)
  <2>1. /\ tx[w].at = "save" /\ Knows(w)
        /\ version' = tx[w].read /\ observed' = tx[w].read /\ UNCHANGED <<events, audit>>
    BY <1>2, Zenon DEF SaveCommit, RecordsInv
  <2>2. locks["application"] = w /\ version = 0 /\ version' = 1 /\ observed' = 1
    BY <2>1, Zenon DEF Knows
  <2>3. ASSUME NEW u \in Writer, u # w PROVE Knows(u)'
    <3>1. tx[u].at # "save" /\ ~Updating(u)
      BY <1>o, <2>2, <2>3, Zenon DEF Knows, Updating
    <3>2. QED
      BY <1>o, <2>1, <2>2, <2>3, <3>1 DEF Knows, Updating
  <2>4. RecordsTypes'
    BY <1>l, <1>i, <2>1, <2>2 DEF RecordsTypes, RecordsInv
  <2>5. EveryVersionIsAccounted'
    <3>1. verify' /\ Updates' = Updates
      BY <2>1, Zenon DEF verify, Updates, RecordsInv, EveryVersionIsAccounted
    <3>2. 2 .. version = 2 .. version'
      BY <2>2
    <3>3. Len(events) = 0 /\ events' = events /\ audit' = audit
      BY <2>1, <2>2, Zenon DEF RecordsInv, EveryVersionIsAccounted
    <3>4. {audit'[i].version : i \in Updates'} = 2 .. version'
      BY <3>1, <3>2, <3>3, Zenon DEF RecordsInv, EveryVersionIsAccounted
    <3>5. Len(events') = IF version' = 0 THEN 0 ELSE version' - 1
      BY <2>2, <3>3
    <3>6. /\ \A i \in DOMAIN events' : events'[i] = i + 1
          /\ \A i, j \in Updates' : i < j => audit'[i].version < audit'[j].version
      BY <3>1, <3>3, Zenon DEF RecordsInv, EveryVersionIsAccounted
    <3>7. QED
      BY <3>1, <3>4, <3>5, <3>6, Zenon DEF EveryVersionIsAccounted
  <2>6. QED
    BY <1>i, <2>3, <2>4, <2>5 DEF RecordsInv
<1>3. QED
  BY <1>1, <1>2

\* The inductive invariant of the application store.
THEOREM RecordsInvariant ==
  RecordsInit /\ [][RecordsNext]_records => []RecordsInv
<1>1. RecordsInit => RecordsInv
  <2> SUFFICES ASSUME RecordsInit PROVE RecordsInv
    OBVIOUS
  <2>1. RecordsTypes
    BY IdleIsTransaction DEF RecordsInit, RecordsTypes
  <2>2. \A w \in Writer : Knows(w)
    BY IdleIsTransaction, Zenon DEF RecordsInit, Knows, Updating
  <2>3. EveryVersionIsAccounted
    BY DEF RecordsInit, EveryVersionIsAccounted, verify, Updates
  <2>4. QED
    BY <2>1, <2>2, <2>3 DEF RecordsInv
<1>2. RecordsInv /\ [RecordsNext]_records => RecordsInv'
  <2> SUFFICES ASSUME RecordsInv, [RecordsNext]_records PROVE RecordsInv'
    OBVIOUS
  <2>1. CASE RecordsNext
    BY <2>1, StatementStep, CommitStep, Zenon DEF RecordsNext
  <2>2. CASE UNCHANGED records
    <3>t. RecordsTypes'
      BY <2>2 DEF records, RecordsInv, RecordsTypes
    <3>1. ASSUME NEW w \in Writer PROVE Knows(w)'
      <4>1. Knows(w)
        BY Zenon DEF RecordsInv
      <4>2. QED
        BY <2>2, <4>1, Zenon DEF records, Knows, Updating
    <3>2. EveryVersionIsAccounted'
      <4>1. Updates' = Updates /\ verify' = verify
        BY <2>2 DEF records, verify, Updates
      <4>2. QED
        BY <2>2, <4>1, Zenon DEF records, RecordsInv, EveryVersionIsAccounted
    <3>3. QED
      BY <3>t, <3>1, <3>2, Zenon DEF RecordsInv
  <2>3. QED
    BY <2>1, <2>2, Zenon
<1>3. QED
  BY <1>1, <1>2, PTL

\* No two writers get one version, and version, events and audit log agree
\* after every commit and roll-back (update_desired_state).
THEOREM VersionsAreAccounted ==
  RecordsInit /\ [][RecordsNext]_records => []EveryVersionIsAccounted
<1>1. RecordsInv => EveryVersionIsAccounted
  BY DEF RecordsInv
<1>2. QED
  BY <1>1, RecordsInvariant, PTL

\* No append, and no update that carries one, fails because another append
\* took its sequence number (append_audit).
THEOREM AppendsSucceed ==
  RecordsInit /\ [][RecordsNext]_records => []NoAppendIsLost
<1>1. RecordsInv => NoAppendIsLost
  BY Zenon DEF RecordsInv, RecordsTypes, Transaction, Statement, NoAppendIsLost
<1>2. QED
  BY <1>1, RecordsInvariant, PTL
=============================================================================
