------------------------------ MODULE Secrets ------------------------------
(***************************************************************************)
(* The secret store: values sealed under a master key, their versions,     *)
(* their rotation, and the audit of it.                                    *)
(*                                                                         *)
(* An envelope is told apart by the key it opens under.  Actors, times and *)
(* the text of values are left out, and so is the retired cipher, which    *)
(* nothing writes.                                                         *)
(***************************************************************************)
EXTENDS Naturals, Sequences, FiniteSets, SequencesExt

CONSTANTS
  Ref,       \* secret references
  MaxKey,    \* bound: master keys
  MaxTrail   \* bound: audit records

ASSUME SecretsAssumption == MaxKey \in Nat \ {0}

VARIABLES
  master_key,   \* the active key
  secrets,      \* Ref -> sealed secret, or NoSecret
  trail         \* audit: [ref, action, version]

secret_vars == <<master_key, secrets, trail>>

NoSecret == [version |-> 0, production |-> FALSE, key |-> 0]

\* No key opens an envelope that was damaged.
Damaged == 0

Stored == {r \in Ref : secrets[r] # NoSecret}

SecretsInit ==
  /\ master_key = 1
  /\ secrets = [r \in Ref |-> NoSecret]
  /\ trail = <<>>

TrailRoom(n) == Len(trail) + n <= MaxTrail

Audit(ref, action, version) == [ref |-> ref, action |-> action, version |-> version]

open_envelope(r) == secrets[r].key = master_key

Sealed(ref, production) ==
  [version |-> secrets[ref].version + 1, production |-> production, key |-> master_key]

put(ref, production) ==
  /\ TrailRoom(1)
  /\ secrets' = [secrets EXCEPT ![ref] = Sealed(ref, production)]
  /\ trail' = Append(trail, Audit(ref, "store", secrets'[ref].version))
  /\ UNCHANGED master_key

\* A put, and a second record of it.  Approval is asked for by the grant.
replace(ref, production, approved) ==
  /\ production => approved
  /\ ref \in Stored
  /\ TrailRoom(2)
  /\ secrets' = [secrets EXCEPT ![ref] = Sealed(ref, production)]
  /\ trail' = trail \o <<Audit(ref, "store", secrets'[ref].version),
                         Audit(ref, "replace", secrets'[ref].version)>>
  /\ UNCHANGED master_key

rotate(ref, approved) ==
  /\ ref \in Stored
  /\ secrets[ref].production => approved
  /\ open_envelope(ref)
  /\ TrailRoom(1)
  /\ secrets' = [secrets EXCEPT ![ref] = Sealed(ref, secrets[ref].production)]
  /\ trail' = Append(trail, Audit(ref, "rotate", secrets'[ref].version))
  /\ UNCHANGED master_key

delete(ref) ==
  /\ ref \in Stored
  /\ TrailRoom(1)
  /\ secrets' = [secrets EXCEPT ![ref] = NoSecret]
  /\ trail' = Append(trail, Audit(ref, "delete", 0))
  /\ UNCHANGED master_key

\* Mutation of rotate_key: one that does not open is passed over, and the
\* new key is not adopted for what remains.
rotate_key_some(approved) ==
  /\ master_key < MaxKey
  /\ (\E r \in Stored : secrets[r].production) => approved
  /\ secrets' = [r \in Ref |->
                   IF r \in Stored /\ open_envelope(r)
                   THEN [secrets[r] EXCEPT !.key = master_key + 1]
                   ELSE secrets[r]]
  /\ master_key' = IF \A r \in Stored : open_envelope(r)
                   THEN master_key + 1 ELSE master_key
  /\ UNCHANGED trail

\* All references, in order of their ids, or none: whatever does not open
\* ends the rotation before anything changed.
rotate_key(approved) ==
  /\ master_key < MaxKey
  /\ (\E r \in Stored : secrets[r].production) => approved
  /\ \A r \in Stored : open_envelope(r)
  /\ TrailRoom(Cardinality(Stored))
  /\ secrets' = [r \in Ref |->
                   IF r \in Stored
                   THEN [secrets[r] EXCEPT !.version = @ + 1, !.key = master_key + 1]
                   ELSE NoSecret]
  /\ trail' = trail \o [i \in 1 .. Cardinality(Stored) |->
                         LET r == SetToSortSeq(Stored, LAMBDA a, b : a < b)[i]
                         IN Audit(r, "rotate", secrets'[r].version)]
  /\ master_key' = master_key + 1

\* What happens to an envelope at rest is not up to the store.
Damage(ref) ==
  /\ ref \in Stored
  /\ secrets' = [secrets EXCEPT ![ref].key = Damaged]
  /\ UNCHANGED <<master_key, trail>>

SecretsNext ==
  \/ \E ref \in Ref, production, approved \in BOOLEAN :
       \/ put(ref, production)
       \/ replace(ref, production, approved)
       \/ rotate(ref, approved)
       \/ delete(ref)
       \/ Damage(ref)
  \/ \E approved \in BOOLEAN : rotate_key(approved)

-----------------------------------------------------------------------------
(***************************************************************************)
(* Through every rotation, of a value or of the key, and every one that is *)
(* refused or aborted, each stored secret that was not damaged opens under *)
(* the active key.                                                         *)
(***************************************************************************)
StoredSecretsOpen == \A r \in Stored : secrets[r].key \in {master_key, Damaged}
=============================================================================
