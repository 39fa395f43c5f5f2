---------------------------- MODULE AgentSession ----------------------------
(***************************************************************************)
(* One agent session: the policy boundary between a backend, which drafts  *)
(* events, and the platform, which owns the log, the approvals and the     *)
(* lifecycle.                                                              *)
(*                                                                         *)
(* A sequence number is a position of the log.  Protected values occur in  *)
(* what others write (prompts, drafts, the names of approvers), never in   *)
(* the platform's own sentences.                                           *)
(***************************************************************************)
EXTENDS Naturals, Sequences, SequencesExt, FiniteSets

CONSTANTS
  Production,   \* whether the session targets production
  MaxEvents     \* bound: events of the log

VARIABLES
  status,       \* SessionStatus
  log,          \* events: [kind, by, request]
  deadline,     \* whether set_deadline was called
  pending,      \* pending_approvals: ids
  counter       \* approval_counter

agent == <<status, log, deadline, pending, counter>>

requires_approval(action) == action = "production_deploy"

\* Raw shell is denied in production, whatever is asked for.
authorize(tool) == ~(Production /\ tool = "raw_shell")

\* append_normalized_impl: nothing that leaks enters the log.
Event(kind, by, request) == [kind |-> kind, by |-> by, request |-> request]

append_system_event(kind, request) ==
  log' = Append(log, Event(kind, "platform", request))

Room(n) == Len(log) + n <= MaxEvents

\* The native agent's flow, and the scripts of an external backend, in which
\* an event may leak; the last script is the answer without one.
Draft(kind, leaks) == [kind |-> kind, leaks |-> leaks]

NativeFlow ==
  << Draft("planning", FALSE), Draft("command_run", FALSE),
     Draft("file_changed", FALSE), Draft("verification", FALSE) >>

Drafts ==
  { NativeFlow,
    << Draft("build", FALSE), Draft("completed", FALSE) >>,
    << Draft("planning", FALSE), Draft("command_run", TRUE) >>,
    << Draft("planning", FALSE) >> }

\* Events are appended one by one until one of them leaks.
Accepted(drafts) ==
  LET clean == {n \in 0 .. Len(drafts) : \A i \in 1 .. n : ~drafts[i].leaks}
      upto == CHOOSE n \in clean : \A m \in clean : m <= n
  IN [i \in 1 .. upto |-> Event(drafts[i].kind, "backend", 0)]

-----------------------------------------------------------------------------
AgentInit ==
  /\ status = "active"
  /\ log = <<>>
  /\ deadline = FALSE
  /\ pending = {}
  /\ counter = 0

set_deadline ==
  /\ ~deadline
  /\ deadline' = TRUE
  /\ UNCHANGED <<status, log, pending, counter>>

\* check_timeout: the first prompt after the deadline ends the session.
PromptTooLate ==
  /\ status = "active"
  /\ deadline
  /\ Room(1)
  /\ status' = "timed_out"
  /\ append_system_event("timed_out", 0)
  /\ UNCHANGED <<deadline, pending, counter>>

\* A prompt that leaks is refused without a trace.
PromptDenied(tool) ==
  /\ status = "active"
  /\ Room(1)
  /\ ~authorize(tool)
  /\ append_system_event("denied", 0)
  /\ UNCHANGED <<status, deadline, pending, counter>>

require_approval(action, tool) ==
  /\ status = "active"
  /\ Room(1)
  /\ authorize(tool)
  /\ requires_approval(action)
  /\ counter' = counter + 1
  /\ pending' = pending \cup {counter + 1}
  /\ append_system_event("approval_requested", counter + 1)
  /\ UNCHANGED <<status, deadline>>

PromptAnswered(action, tool, drafts) ==
  /\ status = "active"
  /\ authorize(tool)
  /\ ~requires_approval(action)
  /\ Room(Len(drafts))
  /\ log' = log \o Accepted(drafts)
  /\ UNCHANGED <<status, deadline, pending, counter>>

prompt(action, tool) ==
  \/ PromptDenied(tool)
  \/ require_approval(action, tool)
  \/ \E drafts \in Drafts : PromptAnswered(action, tool, drafts)

interrupt ==
  /\ status = "active"
  /\ Room(1)
  /\ status' = "interrupted"
  /\ append_system_event("interrupted", 0)
  /\ UNCHANGED <<deadline, pending, counter>>

resume ==
  /\ status = "interrupted"
  /\ Room(1)
  /\ status' = "active"
  /\ append_system_event("resumed", 0)
  /\ UNCHANGED <<deadline, pending, counter>>

complete ==
  /\ status = "active"
  /\ Room(1)
  /\ status' = "completed"
  /\ append_system_event("completed", 0)
  /\ UNCHANGED <<deadline, pending, counter>>

\* An event of this session and backend with the next sequence number is
\* taken as it is, whatever the status.
replay_event(kind) ==
  /\ Room(1)
  /\ log' = Append(log, Event(kind, "replay", 0))
  /\ UNCHANGED <<status, deadline, pending, counter>>

Approver == {"named", "blank", "leaking"}

\* Mutation of resolve_approval: the request goes before the answer is logged.
resolve_approval_early(r, approved, approver) ==
  /\ r \in pending
  /\ Room(1)
  /\ ~(approved /\ approver = "blank")
  /\ pending' = pending \ {r}
  /\ IF approver = "leaking" THEN UNCHANGED log
     ELSE append_system_event(IF approved THEN "verification" ELSE "denied", r)
  /\ UNCHANGED <<status, deadline, counter>>

\* The answer is logged before the request goes; an answer that cannot be
\* logged, or a grant by nobody, leaves the request pending.
resolve_approval(r, approved, approver) ==
  /\ r \in pending
  /\ Room(1)
  /\ ~(approved /\ approver = "blank")
  /\ approver # "leaking"
  /\ append_system_event(IF approved THEN "verification" ELSE "denied", r)
  /\ pending' = pending \ {r}
  /\ UNCHANGED <<status, deadline, counter>>

AgentNext ==
  \/ set_deadline \/ PromptTooLate
  \/ \E action \in {"read_only", "production_deploy"},
        tool \in {"platform_api", "raw_shell"} : prompt(action, tool)
  \/ interrupt \/ resume \/ complete
  \/ \E kind \in {"planning", "completed"} : replay_event(kind)
  \/ \E r \in pending, approved \in BOOLEAN, approver \in Approver :
       resolve_approval(r, approved, approver)

-----------------------------------------------------------------------------
(***************************************************************************)
(* No approval is lost: every request ever made is either pending or has   *)
(* exactly one answer in the log, whatever went wrong with the answers and *)
(* whatever became of the session.  (require_approval, resolve_approval)   *)
(***************************************************************************)
ApprovalsAccounted ==
  \A r \in 1 .. counter :
    LET answers == {i \in DOMAIN log : /\ log[i].request = r
                                       /\ log[i].kind # "approval_requested"}
    IN Cardinality(answers) = IF r \in pending THEN 0 ELSE 1
=============================================================================
