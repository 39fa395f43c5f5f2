----------------------------- MODULE Worktrees -----------------------------
(***************************************************************************)
(* Worktrees of agent sessions: the registry of worktrees of one           *)
(* application, the copies of its entries that callers work on and write   *)
(* back, and the directories on disk.                                      *)
(***************************************************************************)
EXTENDS Naturals, FiniteSets

CONSTANTS
  Session,      \* agent sessions
  Holder,       \* callers, each with one copy of one entry
  MaxWorkspace  \* bound: worktrees ever opened

ASSUME WorktreesAssumption == MaxWorkspace \in Nat

VARIABLES
  opened,     \* the number of worktrees ever opened; ids are 1 .. opened
  owner,      \* session of every worktree ever opened
  registry,   \* WorkspaceRegistry: a set of worktrees
  copy,       \* the copy each holder works on, or NoCopy
  dirs,       \* sessions whose directory exists
  creating    \* holders past the check of materialize_workspace: their session

worktrees == <<opened, owner, registry, copy, dirs, creating>>

NoSession == "none"
NoCopy == [id |-> 0, status |-> "none", diff |-> "none"]

WorktreesInit ==
  /\ opened = 0
  /\ owner = [i \in 1 .. MaxWorkspace |-> NoSession]
  /\ registry = {}
  /\ copy = [h \in Holder |-> NoCopy]
  /\ dirs = {}
  /\ creating = [h \in Holder |-> NoSession]

open == [id |-> opened + 1, status |-> "active", diff |-> "none"]

\* Mutation of allocate: only active worktrees are looked at.
allocate_if_active(h, s) ==
  /\ opened < MaxWorkspace
  /\ \A w \in registry : owner[w.id] = s => w.status # "active"
  /\ opened' = opened + 1
  /\ owner' = [owner EXCEPT ![opened + 1] = s]
  /\ registry' = registry \cup {open}
  /\ copy' = [copy EXCEPT ![h] = open]
  /\ UNCHANGED <<dirs, creating>>

allocate(h, s) ==
  /\ opened < MaxWorkspace
  /\ \A w \in registry : owner[w.id] # s
  /\ opened' = opened + 1
  /\ owner' = [owner EXCEPT ![opened + 1] = s]
  /\ registry' = registry \cup {open}
  /\ copy' = [copy EXCEPT ![h] = open]
  /\ UNCHANGED <<dirs, creating>>

get(h, w) ==
  /\ w \in registry
  /\ copy' = [copy EXCEPT ![h] = w]
  /\ UNCHANGED <<opened, owner, registry, dirs, creating>>

record_diff(h, diff) ==
  /\ copy[h].status = "active"
  /\ copy' = [copy EXCEPT ![h].diff = diff]
  /\ UNCHANGED <<opened, owner, registry, dirs, creating>>

\* An empty diff, a denial and an approval by nobody are refused.
merge(h) ==
  /\ copy[h].status = "active"
  /\ copy[h].diff = "changes"
  /\ copy' = [copy EXCEPT ![h].status = "merged"]
  /\ UNCHANGED <<opened, owner, registry, dirs, creating>>

discard(h) ==
  /\ copy[h].status = "active"
  /\ copy' = [copy EXCEPT ![h].status = "discarded", ![h].diff = "none"]
  /\ UNCHANGED <<opened, owner, registry, dirs, creating>>

\* The copy replaces the entry with its id, if there still is one.
sync(h) ==
  /\ \E w \in registry : w.id = copy[h].id
  /\ registry' = {w \in registry : w.id # copy[h].id} \cup {copy[h]}
  /\ UNCHANGED <<opened, owner, copy, dirs, creating>>

needs_cleanup(w) == w.status # "active"

cleanup_finished ==
  /\ \E w \in registry : needs_cleanup(w)
  /\ registry' = {w \in registry : ~needs_cleanup(w)}
  /\ UNCHANGED <<opened, owner, copy, dirs, creating>>

\* materialize_workspace looks for the directory, then creates it; creating
\* a directory that exists succeeds.
MaterializeCheck(h, s) ==
  /\ creating[h] = NoSession
  /\ s \notin dirs
  /\ creating' = [creating EXCEPT ![h] = s]
  /\ UNCHANGED <<opened, owner, registry, copy, dirs>>

MaterializeCreate(h) ==
  /\ creating[h] # NoSession
  /\ dirs' = dirs \cup {creating[h]}
  /\ creating' = [creating EXCEPT ![h] = NoSession]
  /\ UNCHANGED <<opened, owner, registry, copy>>

\* The status of the worktree is not looked at.
cleanup_workspace(h) ==
  /\ copy[h] # NoCopy
  /\ owner[copy[h].id] \in dirs
  /\ dirs' = dirs \ {owner[copy[h].id]}
  /\ UNCHANGED <<opened, owner, registry, copy, creating>>

WorktreesNext ==
  \/ cleanup_finished
  \/ \E h \in Holder :
       \/ \E s \in Session : allocate(h, s) \/ MaterializeCheck(h, s)
       \/ \E w \in registry : get(h, w)
       \/ \E diff \in {"empty", "changes"} : record_diff(h, diff)
       \/ merge(h) \/ discard(h) \/ sync(h)
       \/ MaterializeCreate(h) \/ cleanup_workspace(h)

-----------------------------------------------------------------------------
(***************************************************************************)
(* A session never has two worktrees in the registry, whatever stale       *)
(* copies are written back to it after entries were cleaned up and         *)
(* allocated anew: both would be the same directory and the same branch.   *)
(* (allocate, sync, cleanup_finished)                                      *)
(***************************************************************************)
OneWorktreePerSession ==
  \A v, w \in registry : owner[v.id] = owner[w.id] => v = w
=============================================================================
