--------------------------- MODULE SessionProofs ----------------------------
(***************************************************************************)
(* Machine-checked proofs about what an agent works with: its session, the *)
(* plugins it calls and the worktrees it is given, for any number of       *)
(* events, calls, plugins, sessions and callers.                           *)
(***************************************************************************)
EXTENDS AgentSession, Plugins, Worktrees, FiniteSetTheorems, TLAPS

-----------------------------------------------------------------------------
(* The approvals of a session.                                               *)

Kind ==
  {"timed_out", "denied", "approval_requested", "interrupted", "resumed", "completed",
   "planning", "command_run", "file_changed", "verification", "build"}

EventRecord == [kind : Kind, by : {"platform", "backend", "replay"}, request : Nat]

\* The entries of the log that answer a request.
AnswersTo(r) ==
  {i \in DOMAIN log : log[i].request = r /\ log[i].kind # "approval_requested"}

\* The log names no request that was not made; a request is pending, and then
\* has no answer, or has one.
ApprovalInv ==
  /\ counter \in Nat
  /\ pending \subseteq 1 .. counter
  /\ log \in Seq(EventRecord)
  /\ \A i \in DOMAIN log : log[i].request <= counter
  /\ \A r \in pending : AnswersTo(r) = {}
  /\ \A r \in (1 .. counter) \ pending : \E i \in DOMAIN log : AnswersTo(r) = {i}

\* An entry at the end of the log adds itself to the answers, if it is one.
LEMMA LogAppend ==
  ASSUME ApprovalInv, NEW e \in EventRecord, log' = Append(log, e)
  PROVE  /\ log' \in Seq(EventRecord) /\ DOMAIN log \subseteq DOMAIN log'
         /\ \A i \in DOMAIN log' : i \in DOMAIN log \/ (i = Len(log) + 1 /\ log'[i] = e)
         /\ \A i \in DOMAIN log : log'[i] = log[i]
         /\ Len(log) + 1 \in DOMAIN log' /\ log'[Len(log) + 1] = e
         /\ \A r : e.request # r \/ e.kind = "approval_requested" =>
                     AnswersTo(r)' = AnswersTo(r)
         /\ \A r : e.request = r /\ e.kind # "approval_requested" =>
                     AnswersTo(r)' = AnswersTo(r) \cup {Len(log) + 1}
<1>1. /\ log \in Seq(EventRecord) /\ Len(log) \in Nat /\ DOMAIN log = 1 .. Len(log)
      /\ log' \in Seq(EventRecord) /\ DOMAIN log' = 1 .. Len(log) + 1
      /\ \A i \in 1 .. Len(log) : log'[i] = log[i]
      /\ log'[Len(log) + 1] = e
  BY DEF ApprovalInv
<1>2. /\ \A i \in DOMAIN log' : i \in DOMAIN log \/ (i = Len(log) + 1 /\ log'[i] = e)
      /\ DOMAIN log \subseteq DOMAIN log' /\ Len(log) + 1 \in DOMAIN log'
      /\ \A i \in DOMAIN log : log'[i] = log[i]
  BY <1>1
<1>3. \A r : e.request # r \/ e.kind = "approval_requested" => AnswersTo(r)' = AnswersTo(r)
  BY <1>2 DEF AnswersTo
<1>4. \A r : e.request = r /\ e.kind # "approval_requested" =>
               AnswersTo(r)' = AnswersTo(r) \cup {Len(log) + 1}
  BY <1>1, <1>2 DEF AnswersTo
<1>5. QED
  BY <1>1, <1>2, <1>3, <1>4

\* Entries that name no request change nothing of the approvals.
LEMMA OtherEntries ==
  ASSUME ApprovalInv, UNCHANGED <<pending, counter>>, log' \in Seq(EventRecord),
         DOMAIN log \subseteq DOMAIN log',
         \A i \in DOMAIN log : log'[i] = log[i],
         \A i \in DOMAIN log' \ DOMAIN log : log'[i].request = 0
  PROVE  ApprovalInv'
<1>1. \A r \in 1 .. counter : AnswersTo(r)' = AnswersTo(r)
  BY DEF AnswersTo
<1>2. QED
  BY <1>1 DEF ApprovalInv

\* An event of the platform that names no request preserves the invariant.
LEMMA SystemEvent ==
  ASSUME ApprovalInv, NEW kind \in Kind, append_system_event(kind, 0),
         UNCHANGED <<pending, counter>>
  PROVE  ApprovalInv'
<1> DEFINE e == Event(kind, "platform", 0)
<1>1. e \in EventRecord /\ e.request = 0 /\ log' = Append(log, e)
  BY DEF Event, EventRecord, append_system_event
<1> HIDE DEF e
<1>2. QED
  BY <1>1, LogAppend, OtherEntries

\* What is taken of an answer, however much of it leaks, names no request.
LEMMA AcceptedEntries ==
  ASSUME NEW drafts \in Drafts
  PROVE  /\ Accepted(drafts) \in Seq(EventRecord)
         /\ \A i \in DOMAIN Accepted(drafts) : Accepted(drafts)[i].request = 0
<1> DEFINE clean == {n \in 0 .. Len(drafts) : \A i \in 1 .. n : ~drafts[i].leaks}
           upto == CHOOSE n \in clean : \A m \in clean : m <= n
<1>1. /\ Len(drafts) \in Nat
      /\ \A i \in 1 .. Len(drafts) : drafts[i].kind \in Kind
  BY DEF Drafts, NativeFlow, Draft, Kind
<1>2. \E n \in clean : \A m \in clean : m <= n
  <2>1. CASE \A i \in 1 .. Len(drafts) : ~drafts[i].leaks
    <3>1. Len(drafts) \in clean
      BY <1>1, <2>1
    <3>2. QED
      BY <1>1, <3>1
  <2>2. CASE \E i \in 1 .. Len(drafts) : drafts[i].leaks
    <3>1. Len(drafts) = 2 /\ ~drafts[1].leaks /\ drafts[2].leaks
      BY <2>2 DEF Drafts, NativeFlow, Draft
    <3>2. 1 \in clean /\ 2 \notin clean
      BY <3>1
    <3>3. \A m \in clean : m <= 1
      BY <3>1, <3>2
    <3>4. QED
      BY <3>2, <3>3
  <2>3. QED
    BY <2>1, <2>2
<1>3. upto \in 0 .. Len(drafts)
  BY <1>2, Zenon
<1> HIDE DEF upto
<1> DEFINE taken == [i \in 1 .. upto |-> Event(drafts[i].kind, "backend", 0)]
<1>4. Accepted(drafts) = taken
  BY DEF Accepted, upto
<1>5. \A i \in 1 .. upto : taken[i] \in EventRecord /\ taken[i].request = 0
  BY <1>1, <1>3 DEF Event, EventRecord
<1>6. taken \in Seq(EventRecord)
  BY <1>1, <1>3, <1>5
<1>7. QED
  BY <1>4, <1>5, <1>6

\* A request is new: no entry of the log names it yet (require_approval).
LEMMA RequestKeeps ==
  ASSUME ApprovalInv, NEW action, NEW tool, require_approval(action, tool)
  PROVE  ApprovalInv'
<1> DEFINE e == Event("approval_requested", "platform", counter + 1)
<1>1. /\ e \in EventRecord /\ e.request = counter + 1 /\ e.kind = "approval_requested"
      /\ log' = Append(log, e)
  BY DEF ApprovalInv, Event, EventRecord, Kind, require_approval, append_system_event
<1> HIDE DEF e
<1>2. /\ counter' = counter + 1 /\ pending' = pending \cup {counter + 1}
      /\ counter \in Nat /\ pending \subseteq 1 .. counter
  BY DEF require_approval, ApprovalInv
<1>3. \A r : AnswersTo(r)' = AnswersTo(r)
  BY <1>1, LogAppend
<1>4. AnswersTo(counter + 1) = {}
  BY <1>2 DEF AnswersTo, ApprovalInv, EventRecord
<1>5. /\ log' \in Seq(EventRecord) /\ DOMAIN log \subseteq DOMAIN log'
      /\ \A i \in DOMAIN log' : log'[i].request <= counter'
  <2>1. \A i \in DOMAIN log : log[i].request \in Nat
    <3>1. \A i \in DOMAIN log : log[i] \in EventRecord
      BY DEF ApprovalInv
    <3>2. QED
      BY <3>1 DEF EventRecord
  <2>2. \A i \in DOMAIN log : log[i].request <= counter + 1
    BY <1>2, <2>1 DEF ApprovalInv
  <2>3. /\ log' \in Seq(EventRecord) /\ DOMAIN log \subseteq DOMAIN log'
        /\ \A i \in DOMAIN log' : i \in DOMAIN log \/ log'[i] = e
        /\ \A i \in DOMAIN log : log'[i] = log[i]
    BY <1>1, LogAppend, Zenon
  <2>4. counter + 1 <= counter + 1
    BY <1>2
  <2>5. QED
    BY <1>1, <1>2, <2>2, <2>3, <2>4
<1>6. \A r \in pending' : AnswersTo(r)' = {}
  BY <1>2, <1>3, <1>4 DEF ApprovalInv
<1>7. \A r \in (1 .. counter') \ pending' : \E i \in DOMAIN log' : AnswersTo(r)' = {i}
  <2>1. \A r \in (1 .. counter') \ pending' : r \in (1 .. counter) \ pending
    BY <1>2
  <2>2. QED
    BY <1>3, <1>5, <2>1, Zenon DEF ApprovalInv
<1>8. QED
  BY <1>2, <1>5, <1>6, <1>7 DEF ApprovalInv

\* The answer is the one entry that a pending request was without
\* (resolve_approval).
LEMMA ResolveKeeps ==
  ASSUME ApprovalInv, NEW r \in pending, NEW approved \in BOOLEAN, NEW approver,
         resolve_approval(r, approved, approver)
  PROVE  ApprovalInv'
<1> DEFINE e == Event(IF approved THEN "verification" ELSE "denied", "platform", r)
<1>1. /\ counter \in Nat /\ r \in 1 .. counter /\ pending \subseteq 1 .. counter
      /\ counter' = counter /\ pending' = pending \ {r}
  BY DEF resolve_approval, ApprovalInv
<1>2. /\ e \in EventRecord /\ e.request = r /\ e.kind # "approval_requested"
      /\ log' = Append(log, e)
  BY <1>1 DEF Event, EventRecord, Kind, resolve_approval, append_system_event
<1> HIDE DEF e
<1>3. /\ \A q : q # r => AnswersTo(q)' = AnswersTo(q)
      /\ AnswersTo(r)' = {Len(log) + 1}
  BY <1>2, LogAppend, Zenon DEF ApprovalInv
<1>4. /\ log' \in Seq(EventRecord) /\ DOMAIN log \subseteq DOMAIN log'
      /\ Len(log) + 1 \in DOMAIN log'
      /\ \A i \in DOMAIN log' : log'[i].request <= counter'
  BY <1>1, <1>2, LogAppend DEF ApprovalInv
<1>5. \A q \in pending' : AnswersTo(q)' = {}
  BY <1>1, <1>3 DEF ApprovalInv
<1>6. ASSUME NEW q \in (1 .. counter') \ pending'
      PROVE  \E i \in DOMAIN log' : AnswersTo(q)' = {i}
  <2>1. CASE q = r
    BY <1>3, <1>4, <2>1
  <2>2. CASE q # r
    BY <1>1, <1>3, <1>4, <2>2, Zenon DEF ApprovalInv
  <2>3. QED
    BY <2>1, <2>2
<1>7. QED
  BY <1>1, <1>4, <1>5, <1>6 DEF ApprovalInv

\* What a backend answers to a prompt preserves the invariant.
LEMMA AnswerKeeps ==
  ASSUME ApprovalInv, NEW action, NEW tool, NEW drafts \in Drafts,
         PromptAnswered(action, tool, drafts)
  PROVE  ApprovalInv'
<1> DEFINE s == Accepted(drafts)
<1>1. s \in Seq(EventRecord) /\ \A i \in DOMAIN s : s[i].request = 0
  BY AcceptedEntries
<1>2. log' = log \o s /\ UNCHANGED <<pending, counter>> /\ log \in Seq(EventRecord)
  BY DEF PromptAnswered, ApprovalInv
<1> HIDE DEF s
<1>3. /\ log' \in Seq(EventRecord) /\ DOMAIN log \subseteq DOMAIN log'
      /\ \A i \in DOMAIN log : log'[i] = log[i]
      /\ \A i \in DOMAIN log' \ DOMAIN log : i - Len(log) \in DOMAIN s /\ log'[i] = s[i - Len(log)]
  <2>1. /\ Len(log) \in Nat /\ Len(s) \in Nat
        /\ DOMAIN log = 1 .. Len(log) /\ DOMAIN s = 1 .. Len(s)
    BY <1>1, <1>2
  <2>2. /\ log' \in Seq(EventRecord) /\ DOMAIN log' = 1 .. Len(log) + Len(s)
        /\ \A i \in 1 .. Len(log) + Len(s) :
             log'[i] = IF i <= Len(log) THEN log[i] ELSE s[i - Len(log)]
    BY <1>1, <1>2
  <2>3. QED
    BY <2>1, <2>2
<1>4. QED
  BY <1>1, <1>2, <1>3, OtherEntries

\* Every step of a session preserves the invariant.
LEMMA ApprovalStep == ApprovalInv /\ [AgentNext]_agent => ApprovalInv'
<1> SUFFICES ASSUME ApprovalInv, [AgentNext]_agent PROVE ApprovalInv'
  OBVIOUS
<1>1. CASE UNCHANGED <<log, pending, counter>>
  <2>1. \A r : AnswersTo(r)' = AnswersTo(r)
    BY <1>1 DEF AnswersTo
  <2>2. QED
    BY <1>1, <2>1 DEF ApprovalInv
<1>2. CASE PromptTooLate \/ interrupt \/ resume \/ complete
  BY <1>2, SystemEvent DEF PromptTooLate, interrupt, resume, complete, Kind
<1>3. ASSUME NEW tool, PromptDenied(tool) PROVE ApprovalInv'
  BY <1>3, SystemEvent DEF PromptDenied, Kind
<1>4. ASSUME NEW kind \in {"planning", "completed"}, replay_event(kind) PROVE ApprovalInv'
  <2> DEFINE e == Event(kind, "replay", 0)
  <2>1. e \in EventRecord /\ e.request = 0 /\ log' = Append(log, e)
    BY <1>4 DEF Event, EventRecord, Kind, replay_event
  <2>2. UNCHANGED <<pending, counter>>
    BY <1>4 DEF replay_event
  <2> HIDE DEF e
  <2>3. QED
    BY <2>1, <2>2, LogAppend, OtherEntries
<1>5. QED
  BY <1>1, <1>2, <1>3, <1>4, RequestKeeps, AnswerKeeps, ResolveKeeps, Zenon
     DEF AgentNext, prompt, set_deadline, agent

\* Every request for approval is pending or has exactly one answer, whatever
\* leaked, was refused or was replayed in between.
THEOREM ApprovalsStayAccounted == AgentInit /\ [][AgentNext]_agent => []ApprovalsAccounted
<1>1. AgentInit => ApprovalInv
  BY DEF AgentInit, ApprovalInv
<1>2. ApprovalInv => ApprovalsAccounted
  <2> SUFFICES ASSUME ApprovalInv, NEW r \in 1 .. counter
               PROVE  Cardinality(AnswersTo(r)) = IF r \in pending THEN 0 ELSE 1
    BY DEF ApprovalsAccounted, AnswersTo
  <2>1. CASE r \in pending
    BY <2>1, FS_EmptySet, Zenon DEF ApprovalInv
  <2>2. CASE r \notin pending
    BY <2>2, FS_Singleton, Zenon DEF ApprovalInv
  <2>3. QED
    BY <2>1, <2>2
<1>3. QED
  BY <1>1, <1>2, ApprovalStep, PTL

-----------------------------------------------------------------------------
(* Calls of plugins.  The next id is unused because every id that was used   *)
(* on the connection is below it, whoever chose it and whatever state the    *)
(* plugin was in when it was taken.                                          *)

State == {"absent", "active", "refused", "unavailable", "stopped"}

Process ==
  [family : Family \cup {"none"}, state : State, next : Nat,
   in_flight : SUBSET Nat, cancelled : SUBSET Nat, answered : SUBSET Nat]

Below(p) ==
  \A i \in p.in_flight \cup p.cancelled \cup p.answered : i < p.next

CallInv == plugins \in [PluginId -> Process] /\ \A id \in PluginId : Below(plugins[id])

\* What an operation does to the process with one id keeps it in order.
LEMMA OneProcess ==
  ASSUME CallInv, NEW id \in PluginId, NEW p \in Process, Below(p),
         plugins' = [plugins EXCEPT ![id] = p]
  PROVE  CallInv'
BY DEF CallInv

\* Every step of the plugin registry preserves the invariant.
LEMMA CallStep == CallInv /\ [PluginsNext]_plugins => CallInv'
<1> SUFFICES ASSUME CallInv, NEW id \in PluginId,
                    \/ \E m \in Manifest : register(id, m)
                    \/ mark_unavailable(id)
                    \/ shutdown(id)
                    \/ invoke(id)
                    \/ \E call \in CallId : begin_call(id, call)
                    \/ \E call \in plugins[id].in_flight : cancel(id, call)
             PROVE  CallInv'
  BY Zenon DEF PluginsNext, CallInv
<1> DEFINE p == plugins[id]
<1>1. /\ p \in Process /\ Below(p) /\ p.next \in Nat
      /\ p.in_flight \subseteq Nat /\ p.cancelled \subseteq Nat /\ p.answered \subseteq Nat
  BY Zenon DEF CallInv, Process
<1>2. ASSUME NEW m \in Manifest, register(id, m) PROVE CallInv'
  <2>1. plugins' = [plugins EXCEPT ![id] = connect(m)]
    BY <1>2, Zenon DEF register
  <2>2. connect(m) \in Process /\ Below(connect(m))
    BY Zenon DEF connect, negotiate, Absent, Process, Below, State, Manifest
  <2>3. QED
    BY <2>1, <2>2, OneProcess, Zenon
<1>3. ASSUME NEW state \in State,
             plugins' = [plugins EXCEPT ![id].state = state, ![id].in_flight = {}]
      PROVE  CallInv'
  <2> DEFINE q == [p EXCEPT !.state = state, !.in_flight = {}]
  <2>1. plugins' = [plugins EXCEPT ![id] = q]
    BY <1>3, Zenon
  <2>2. q \in Process /\ Below(q)
    BY <1>1, Zenon DEF Process, Below
  <2>3. QED
    BY <2>1, <2>2, OneProcess, Zenon
<1>4. CASE mark_unavailable(id)
  BY <1>3, <1>4 DEF mark_unavailable, State
<1>5. CASE shutdown(id)
  BY <1>3, <1>5 DEF shutdown, State
<1>6. CASE invoke(id)
  <2> DEFINE q == [p EXCEPT !.next = p.next + 1,
                            !.in_flight = p.in_flight \ {p.next},
                            !.answered = p.answered \cup {p.next}]
  <2>1. plugins' = [plugins EXCEPT ![id] = q]
    BY <1>6, Zenon DEF invoke
  <2>2. q \in Process
    <3>1. p.next + 1 \in Nat /\ p.answered \cup {p.next} \in SUBSET Nat
      BY <1>1
    <3>2. QED
      BY <1>1, <3>1, Zenon DEF Process
  <2>3. /\ q.next = p.next + 1 /\ q.in_flight \subseteq p.in_flight
        /\ q.cancelled = p.cancelled /\ q.answered = p.answered \cup {p.next}
    BY <1>1 DEF Process
  <2> HIDE DEF p, q
  <2>4. Below(q)
    BY <1>1, <2>3 DEF Below
  <2>5. QED
    BY <2>1, <2>2, <2>4, OneProcess, Zenon
<1>7. ASSUME NEW call \in CallId, begin_call(id, call) PROVE CallInv'
  <2> DEFINE n == IF call < p.next THEN p.next ELSE call + 1
             q == [p EXCEPT !.in_flight = p.in_flight \cup {call}, !.next = n]
  <2>1. plugins' = [plugins EXCEPT ![id] = q]
    BY <1>7, Zenon DEF begin_call
  <2>2. call \in Nat /\ n \in Nat /\ call < n /\ p.next <= n
    BY <1>1 DEF CallId
  <2> HIDE DEF n
  <2>3. q \in Process
    <3>1. p.in_flight \cup {call} \in SUBSET Nat
      BY <1>1, <2>2
    <3>2. QED
      BY <1>1, <2>2, <3>1, Zenon DEF Process
  <2>4. /\ q.next = n /\ q.in_flight = p.in_flight \cup {call}
        /\ q.cancelled = p.cancelled /\ q.answered = p.answered
    BY <1>1 DEF Process
  <2> HIDE DEF p, q
  <2>5. Below(q)
    BY <1>1, <2>2, <2>4 DEF Below
  <2>6. QED
    BY <2>1, <2>3, <2>5, OneProcess, Zenon
<1>8. ASSUME NEW call \in p.in_flight, cancel(id, call) PROVE CallInv'
  <2> DEFINE q == [p EXCEPT !.in_flight = p.in_flight \ {call},
                            !.cancelled = p.cancelled \cup {call}]
  <2>1. plugins' = [plugins EXCEPT ![id] = q]
    BY <1>8, Zenon DEF cancel
  <2>2. q \in Process /\ Below(q)
    BY <1>1, Zenon DEF Process, Below
  <2>3. QED
    BY <2>1, <2>2, OneProcess, Zenon
<1>9. QED
  BY <1>2, <1>4, <1>5, <1>6, <1>7, <1>8

\* The id of the next call is unused on its connection, through calls that choose
\* their own ids, deaths, shutdowns and registrations of any plugin (invoke,
\* begin_call, cancel, register).
THEOREM NextIdStaysUnused == PluginsInit /\ [][PluginsNext]_plugins => []NextIdIsUnused
<1>1. PluginsInit => CallInv
  BY DEF PluginsInit, CallInv, Absent, Process, Below, State
<1>2. CallInv => NextIdIsUnused
  BY DEF CallInv, NextIdIsUnused, Below, Process
<1>3. QED
  BY <1>1, <1>2, CallStep, PTL

-----------------------------------------------------------------------------
(* Isolation of sessions.  That a session has one worktree is kept by sync   *)
(* only because an id is never given twice and a copy, however old, names an *)
(* id that was: what is written back replaces the entry with that id and has *)
(* its owner.                                                                *)

Entry ==
  [id : 0 .. opened, status : {"none", "active", "merged", "discarded"},
   diff : {"none", "empty", "changes"}]

OneEntryPerId == \A v, w \in registry : v.id = w.id => v = w

RegistryInv ==
  /\ opened \in 0 .. MaxWorkspace
  /\ owner \in [1 .. MaxWorkspace -> Session \cup {NoSession}]
  /\ registry \subseteq Entry
  /\ \A w \in registry : w.id # 0
  /\ copy \in [Holder -> Entry]
  /\ OneEntryPerId
  /\ OneWorktreePerSession

\* A new entry has an id and a session of its own (allocate).
LEMMA AllocateKeeps ==
  ASSUME RegistryInv, NEW h \in Holder, NEW s \in Session, allocate(h, s)
  PROVE  RegistryInv'
<1>1. opened \in Nat /\ opened + 1 \in 1 .. MaxWorkspace /\ opened' = opened + 1
  BY WorktreesAssumption DEF RegistryInv, allocate
<1>2. Entry \subseteq Entry'
  BY <1>1 DEF Entry
<1>3. open \in Entry' /\ open.id = opened + 1
  BY <1>1 DEF open, Entry
<1>4. /\ owner' = [owner EXCEPT ![opened + 1] = s]
      /\ registry' = registry \cup {open}
      /\ copy' = [copy EXCEPT ![h] = open]
  BY DEF allocate
<1>5. \A w \in registry : w.id \in 1 .. opened
  BY <1>1 DEF RegistryInv, Entry
<1>6. \A w \in registry : owner'[w.id] = owner[w.id] /\ owner[w.id] # s
  BY <1>1, <1>4, <1>5 DEF RegistryInv, allocate
<1>7. owner'[open.id] = s
  BY <1>1, <1>3, <1>4, Zenon DEF RegistryInv
<1> HIDE DEF open
<1>8. OneEntryPerId'
  BY <1>1, <1>3, <1>4, <1>5 DEF RegistryInv, OneEntryPerId
<1>9. OneWorktreePerSession'
  BY <1>4, <1>6, <1>7 DEF RegistryInv, OneWorktreePerSession
<1>10. QED
  BY <1>1, <1>2, <1>3, <1>4, <1>5, <1>8, <1>9 DEF RegistryInv

\* A copy that is written back takes the place of the entry with its id (sync).
LEMMA SyncKeeps ==
  ASSUME RegistryInv, NEW h \in Holder, sync(h)
  PROVE  RegistryInv'
<1>1. PICK old \in registry : old.id = copy[h].id
  BY DEF sync
<1>2. /\ registry' = {w \in registry : w.id # copy[h].id} \cup {copy[h]}
      /\ UNCHANGED <<opened, owner, copy>>
  BY DEF sync
<1>3. copy[h] \in Entry /\ copy[h].id # 0 /\ Entry' = Entry
  BY <1>1, <1>2, Zenon DEF RegistryInv, Entry
<1>4. OneEntryPerId'
  BY <1>2, Zenon DEF RegistryInv, OneEntryPerId
<1>5. OneWorktreePerSession'
  BY <1>1, <1>2 DEF RegistryInv, OneWorktreePerSession
<1>6. QED
  BY <1>2, <1>3, <1>4, <1>5 DEF RegistryInv

\* Work on a copy touches nothing else (get, record_diff, merge, discard).
LEMMA CopyKeeps ==
  ASSUME RegistryInv, NEW h \in Holder,
         \/ \E w \in registry : get(h, w)
         \/ \E diff \in {"empty", "changes"} : record_diff(h, diff)
         \/ merge(h) \/ discard(h)
  PROVE  RegistryInv'
<1>1. UNCHANGED <<opened, owner, registry>>
  BY Zenon DEF get, record_diff, merge, discard
<1>2. copy' \in [Holder -> Entry]
  <2>1. copy \in [Holder -> Entry] /\ registry \subseteq Entry
    BY DEF RegistryInv
  <2>2. ASSUME NEW e \in Entry, copy' = [copy EXCEPT ![h] = e]
        PROVE  copy' \in [Holder -> Entry]
    BY <2>1, <2>2
  <2>3. ASSUME NEW w \in registry, get(h, w) PROVE copy' \in [Holder -> Entry]
    BY <2>1, <2>2, <2>3, Zenon DEF get
  <2>4. ASSUME NEW diff \in {"empty", "changes"}, record_diff(h, diff)
        PROVE  copy' \in [Holder -> Entry]
    <3>1. copy' = [copy EXCEPT ![h] = [copy[h] EXCEPT !.diff = diff]]
      BY <2>4 DEF record_diff
    <3>2. [copy[h] EXCEPT !.diff = diff] \in Entry
      BY <2>1 DEF Entry
    <3>3. QED
      BY <2>2, <3>1, <3>2, Zenon
  <2>5. ASSUME merge(h) PROVE copy' \in [Holder -> Entry]
    <3>1. copy' = [copy EXCEPT ![h] = [copy[h] EXCEPT !.status = "merged"]]
      BY <2>5 DEF merge
    <3>2. [copy[h] EXCEPT !.status = "merged"] \in Entry
      BY <2>1 DEF Entry
    <3>3. QED
      BY <2>2, <3>1, <3>2, Zenon
  <2>6. ASSUME discard(h) PROVE copy' \in [Holder -> Entry]
    <3>1. copy' = [copy EXCEPT ![h] = [copy[h] EXCEPT !.status = "discarded", !.diff = "none"]]
      BY <2>6, Zenon DEF discard
    <3>2. [copy[h] EXCEPT !.status = "discarded", !.diff = "none"] \in Entry
      <4>1. copy[h] \in Entry
        BY <2>1
      <4>2. QED
        BY <4>1, Zenon DEF Entry
    <3>3. QED
      BY <2>2, <3>1, <3>2, Zenon
  <2>7. QED
    BY <2>3, <2>4, <2>5, <2>6
<1>3. QED
  BY <1>1, <1>2, Zenon DEF RegistryInv, Entry, OneEntryPerId, OneWorktreePerSession

\* Every step of the workspace registry preserves the invariant.
LEMMA RegistryStep == RegistryInv /\ [WorktreesNext]_worktrees => RegistryInv'
<1> SUFFICES ASSUME RegistryInv, [WorktreesNext]_worktrees PROVE RegistryInv'
  OBVIOUS
<1>1. ASSUME cleanup_finished PROVE RegistryInv'
  <2>1. registry' \subseteq registry /\ UNCHANGED <<opened, owner, copy>>
    BY <1>1 DEF cleanup_finished
  <2>2. QED
    BY <2>1 DEF RegistryInv, Entry, OneEntryPerId, OneWorktreePerSession
<1>2. ASSUME UNCHANGED <<opened, owner, registry, copy>> PROVE RegistryInv'
  BY <1>2 DEF RegistryInv, Entry, OneEntryPerId, OneWorktreePerSession
<1>3. ASSUME NEW h \in Holder,
             \/ \E s \in Session : MaterializeCheck(h, s)
             \/ MaterializeCreate(h) \/ cleanup_workspace(h)
      PROVE  RegistryInv'
  BY <1>2, <1>3 DEF MaterializeCheck, MaterializeCreate, cleanup_workspace
<1>4. CASE UNCHANGED worktrees
  BY <1>2, <1>4 DEF worktrees
<1>5. QED
  BY <1>1, <1>3, <1>4, AllocateKeeps, SyncKeeps, CopyKeeps DEF WorktreesNext

\* Whatever stale copies are written back, and whatever was cleaned up and
\* allocated anew in between, a session has one worktree (WorkspaceRegistry).
THEOREM SessionsStayApart ==
  WorktreesInit /\ [][WorktreesNext]_worktrees => []OneWorktreePerSession
<1>1. WorktreesInit => RegistryInv
  BY WorktreesAssumption DEF WorktreesInit, RegistryInv, Entry, NoCopy, OneEntryPerId,
     OneWorktreePerSession
<1>2. RegistryInv => OneWorktreePerSession
  BY DEF RegistryInv
<1>3. QED
  BY <1>1, <1>2, RegistryStep, PTL

=============================================================================
