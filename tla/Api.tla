-------------------------------- MODULE Api --------------------------------
(***************************************************************************)
(* The mutating half of the HTTP API: concurrent requests, each a sequence *)
(* of statements with an await between any two of them.                    *)
(*                                                                         *)
(* A handler authenticates, looks its idempotency key up in the table of   *)
(* stored responses, changes the stores, and stores its response last.     *)
(* Nothing ties these statements together: other requests run in between,  *)
(* and a request may end after any of them (a database error, a dropped    *)
(* connection, the death of the process).  Clients then send the call      *)
(* again, as another request.                                              *)
(***************************************************************************)
EXTENDS FiniteSets

CONSTANTS
  Request,      \* one value per HTTP request
  Key,          \* idempotency keys
  NoKey,        \* a request without the header
  Token,        \* bearer tokens
  Scope,        \* the scope of each token
  Registered,   \* applications registered at the start
  Environment,  \* environments every application has
  Production,   \* the environment a deploy goes to by default
  Deployment,   \* deployments on record
  None,         \* an absent body field, response or call
  Call          \* the calls that clients make

VARIABLES
  tokens,       \* TokenStore: the tokens that authenticate a request
  apps,         \* registered applications
  jobs,         \* API jobs with a row in the jobs table
  done,         \* the ones among them that have ended
  safe,         \* deployments with an image, in a phase to roll back to
  replay,       \* idempotency_records: the stored response of each key
  events,       \* requests whose event is on record
  audit,        \* requests with an auth.rejected row in the audit log
  pc,           \* how far each request has come
  call,         \* what each request asks for
  answer        \* the success response each request was sent

stores == <<apps, jobs, done, replay, events, audit>>
vars == <<tokens, apps, jobs, done, safe, replay, events, audit, pc, call,
          answer>>

-----------------------------------------------------------------------------
Command ==
  {"import", "run", "agent", "preview", "capability", "build", "deploy",
   "rollback"}

HumanOnly == {"import", "build", "deploy", "rollback"}

\* An application that a request imports has a fresh id, named by the request.
App == Registered \cup Request

Arg == Environment \cup Deployment \cup {"database", "unknown", None}

CallShape ==
  [ command : Command,
    app : App \cup {None},
    arg : Arg,
    key : Key \cup {NoKey},
    token : Token,
    actor : {"human", "agent", "platform", "malformed"},
    approver : BOOLEAN ]     \* a non-blank approval.approver in the body

ASSUME ApiAssumption ==
  /\ NoKey \notin Key
  /\ Production \in Environment
  /\ None \notin Registered \cup Request \cup Environment \cup Deployment
  /\ Scope \in [Token -> {"human", "agent"}]
  /\ Registered \cap Request = {}
  /\ Call \subseteq CallShape
  /\ None \notin Call

(***************************************************************************)
(* The idempotency key of a job is made of its target, its action and a    *)
(* version that is always 1.  The target is the application, a suffix of   *)
(* its own for each command, and for some commands an argument; the action *)
(* follows from the command.                                               *)
(***************************************************************************)
Job == [app : App, command : Command, arg : Arg]

TargetArg(c) ==
  CASE c.command = "deploy" /\ c.arg = None -> Production
    [] c.command \in {"capability", "deploy", "rollback"} -> c.arg
    [] OTHER -> None

JobFor(r, c) ==
  [app |-> IF c.command = "import" THEN r ELSE c.app,
   command |-> c.command,
   arg |-> TargetArg(c)]

JobOf(r) == JobFor(r, call[r])

\* A response, by the request that worked it out.
Response == [command : Command, job : Job, by : Request]

ResponseOf(r) == [command |-> call[r].command, job |-> JobOf(r), by |-> r]

-----------------------------------------------------------------------------
(***************************************************************************)
(* authorized and the policy checks of the handlers, in their order.  They *)
(* read the token set once and await nothing that steers them.             *)
(***************************************************************************)
Authentic(c) == c.token \in tokens

InScope(c) == Scope[c.token] = c.actor

\* Mutation of Permitted: agents may call what is for humans only.
PermittedAgents(c) ==
  /\ c.command = "rollback" => c.approver
  /\ c.key # NoKey

Permitted(c) ==
  /\ c.command \in HumanOnly => c.actor = "human"
  /\ c.command = "rollback" => c.approver
  /\ c.key # NoKey

\* Denials of authentication and scope are audited; a failed write is ignored.
AuditDenial(r) == audit' \in {audit, audit \cup {r}}

\* The limiter in front of every route turns the request away with a 429;
\* its windows are not modelled, so it may do so at any time.
rate_limit(r) ==
  /\ pc' = [pc EXCEPT ![r] = "refused"]
  /\ UNCHANGED audit

Arrive(r, c) ==
  /\ pc[r] = "new"
  /\ call' = [call EXCEPT ![r] = c]
  /\ \/ rate_limit(r)
     \/ /\ \/ ~Authentic(c)
           \/ c.actor # "malformed" /\ ~InScope(c)
        /\ AuditDenial(r)
        /\ pc' = [pc EXCEPT ![r] = "refused"]
     \/ /\ Authentic(c)
        /\ c.actor = "malformed" \/ (InScope(c) /\ ~Permitted(c))
        /\ pc' = [pc EXCEPT ![r] = "refused"]
        /\ UNCHANGED audit
     \/ /\ Authentic(c) /\ InScope(c) /\ Permitted(c)
        /\ pc' = [pc EXCEPT ![r] = "check"]
        /\ UNCHANGED audit
  /\ UNCHANGED <<tokens, apps, jobs, done, safe, replay, events, answer>>

\* Mutation of check_replay: any stored response will do.
check_replay_any(r) ==
  /\ pc[r] = "check"
  /\ \/ \E k \in Key :
          /\ replay[k] # None
          /\ answer' = [answer EXCEPT ![r] = replay[k]]
          /\ pc' = [pc EXCEPT ![r] = "replayed"]
     \/ /\ \A k \in Key : replay[k] = None
        /\ pc' = [pc EXCEPT ![r] = "load"]
        /\ UNCHANGED answer
  /\ UNCHANGED <<tokens, stores, safe, call>>

\* Every request with the key of a stored response is answered with it.
check_replay(r) ==
  /\ pc[r] = "check"
  /\ IF replay[call[r].key] # None
       THEN /\ answer' = [answer EXCEPT ![r] = replay[call[r].key]]
            /\ pc' = [pc EXCEPT ![r] = "replayed"]
       ELSE /\ pc' = [pc EXCEPT ![r] = "load"]
            /\ UNCHANGED answer
  /\ UNCHANGED <<tokens, stores, safe, call>>

-----------------------------------------------------------------------------
\* import saves a new application under the id it has just made up.
ImportApplication(r) ==
  /\ pc[r] = "load"
  /\ call[r].command = "import"
  /\ apps' = apps \cup {r}
  /\ pc' = [pc EXCEPT ![r] = "enqueue"]
  /\ UNCHANGED <<tokens, jobs, done, safe, replay, events, audit, call, answer>>

\* What the body must hold for a command, once the application is loaded.
ArgumentFits(c) ==
  CASE c.command = "capability" -> c.arg # None
    [] c.command = "deploy" -> TargetArg(c) \in Environment
    [] c.command = "rollback" -> c.arg \in safe
    [] OTHER -> TRUE

\* Mutation of LoadApplication: an unregistered application is let through.
LoadAnyApplication(r) ==
  /\ pc[r] = "load"
  /\ call[r].command # "import"
  /\ pc' = [pc EXCEPT ![r] =
       IF ArgumentFits(call[r]) THEN "enqueue" ELSE "refused"]
  /\ UNCHANGED <<tokens, stores, safe, call, answer>>

\* load_app, and the checks of the body that follow it.
LoadApplication(r) ==
  /\ pc[r] = "load"
  /\ call[r].command # "import"
  /\ pc' = [pc EXCEPT ![r] =
       IF call[r].app \in apps /\ ArgumentFits(call[r])
         THEN "enqueue" ELSE "refused"]
  /\ UNCHANGED <<tokens, stores, safe, call, answer>>

\* A key that is taken leaves its row alone, and the row is the answer's job.
enqueue(r) ==
  /\ pc[r] = "enqueue"
  /\ jobs' = jobs \cup {JobOf(r)}
  /\ pc' = [pc EXCEPT ![r] = "record"]
  /\ UNCHANGED <<tokens, apps, done, safe, replay, events, audit, call, answer>>

record_event(r) ==
  /\ pc[r] = "record"
  /\ events' = events \cup {r}
  /\ pc' = [pc EXCEPT ![r] = "store"]
  /\ UNCHANGED <<tokens, apps, jobs, done, safe, replay, audit, call, answer>>

\* Mutation of store_replay: ON CONFLICT DO UPDATE.
store_replay_last(r) ==
  /\ pc[r] = "store"
  /\ replay' = [replay EXCEPT ![call[r].key] = ResponseOf(r)]
  /\ answer' = [answer EXCEPT ![r] = ResponseOf(r)]
  /\ pc' = [pc EXCEPT ![r] = "answered"]
  /\ UNCHANGED <<tokens, apps, jobs, done, safe, events, audit, call>>

\* The first response of a key stays; the request answers with its own.
store_replay(r) ==
  /\ pc[r] = "store"
  /\ replay' = [replay EXCEPT ![call[r].key] =
       IF @ = None THEN ResponseOf(r) ELSE @]
  /\ answer' = [answer EXCEPT ![r] = ResponseOf(r)]
  /\ pc' = [pc EXCEPT ![r] = "answered"]
  /\ UNCHANGED <<tokens, apps, jobs, done, safe, events, audit, call>>

(***************************************************************************)
(* A statement fails (the client is told 500) or the request is dropped    *)
(* between two statements: what it has written stays.                      *)
(***************************************************************************)
InFlight == {"check", "load", "enqueue", "record", "store"}

Break(r) ==
  /\ pc[r] \in InFlight
  /\ pc' = [pc EXCEPT ![r] = "broken"]
  /\ UNCHANGED <<tokens, stores, safe, call, answer>>

-----------------------------------------------------------------------------
\* TokenStore::revoke, or the token's expires_at passes.
RevokeOrExpire(t) ==
  /\ tokens' = tokens \ {t}
  /\ UNCHANGED <<stores, safe, pc, call, answer>>

\* TokenStore::reload: the configured set replaces the live one, and its
\* members are valid but for those that have expired.
Reload(valid) ==
  /\ tokens' = valid
  /\ UNCHANGED <<stores, safe, pc, call, answer>>

\* A worker finishes a job, with success or as a dead letter.
Settle(j) ==
  /\ done' = done \cup {j}
  /\ UNCHANGED <<tokens, apps, jobs, safe, replay, events, audit, pc, call,
                 answer>>

\* The controller moves a deployment into or out of the safe phases.
Observe(d) ==
  /\ safe' = IF d \in safe THEN safe \ {d} ELSE safe \cup {d}
  /\ UNCHANGED <<tokens, stores, pc, call, answer>>

Init ==
  /\ tokens = Token
  /\ apps = Registered
  /\ jobs = {}
  /\ done = {}
  /\ safe \in SUBSET Deployment
  /\ replay = [k \in Key |-> None]
  /\ events = {}
  /\ audit = {}
  /\ pc = [r \in Request |-> "new"]
  /\ call = [r \in Request |-> None]
  /\ answer = [r \in Request |-> None]

Handle(r) ==
  \/ check_replay(r)
  \/ ImportApplication(r)
  \/ LoadApplication(r)
  \/ enqueue(r)
  \/ record_event(r)
  \/ store_replay(r)

Next ==
  \/ \E r \in Request : (\E c \in Call : Arrive(r, c)) \/ Handle(r) \/ Break(r)
  \/ \E t \in tokens : RevokeOrExpire(t)
  \/ \E valid \in SUBSET Token : Reload(valid)
  \/ \E j \in jobs \ done : Settle(j)
  \/ \E d \in Deployment : Observe(d)

Spec == Init /\ [][Next]_vars

-----------------------------------------------------------------------------
\* Requests that were told their mutation is accepted.
Acknowledged == {r \in Request : pc[r] \in {"replayed", "answered"}}

(***************************************************************************)
(* Whoever is told that a mutation was accepted, by the request that ran   *)
(* it or by a replay, can rely on what the response names: the job has its *)
(* row, the application is registered, and the event of the request that   *)
(* ran it is on record.  The handlers owe it to the order of enqueue,      *)
(* record_event and store_replay, whatever breaks in between.              *)
(***************************************************************************)
AcknowledgedOnRecord ==
  \A r \in Acknowledged :
    /\ answer[r].job \in jobs
    /\ answer[r].job.app \in apps
    /\ answer[r].by \in events

(***************************************************************************)
(* Every replay ever sent is the response the table still holds for the    *)
(* key, worked out by a request with that key: two requests that race      *)
(* through check_replay and store_replay cannot make retries disagree.     *)
(***************************************************************************)
ReplaysAgree ==
  \A r \in Request :
    pc[r] = "replayed" =>
      /\ answer[r] = replay[call[r].key]
      /\ call[answer[r].by].key = call[r].key

\* All requests so far that carry key k ask for one and the same operation,
\* on an application that exists already.
OneOperation(k) ==
  \A r, s \in {q \in Request : call[q] # None /\ call[q].key = k} :
    call[r].command # "import" /\ JobOf(r) = JobOf(s)

(***************************************************************************)
(* Retries of a mutation of an existing application name one job, though   *)
(* check_replay and store_replay are not atomic and a request may break    *)
(* before its response is stored: enqueue then finds the key taken.        *)
(***************************************************************************)
RetriesNameOneJob ==
  \A r, s \in Acknowledged :
    (call[r].key = call[s].key /\ OneOperation(call[r].key))
      => answer[r].job = answer[s].job

(***************************************************************************)
(* Every job and every new application goes back to a request that was let *)
(* through for it: a human's where the command is for humans only, with an *)
(* approver where it is a rollback, and never one that the audit log lists *)
(* as rejected.  Refused requests leave nothing else behind.               *)
(***************************************************************************)
EffectsAreAuthorized ==
  /\ \A j \in jobs : \E r \in Request \ audit :
       /\ pc[r] \notin {"new", "refused", "check", "replayed"}
       /\ JobOf(r) = j
       /\ j.command \in HumanOnly => Scope[call[r].token] = "human"
       /\ j.command = "rollback" => call[r].approver
  /\ \A r \in apps \ Registered :
       r \notin audit /\ Scope[call[r].token] = "human"
  /\ \A r \in Request :
       pc[r] \in {"new", "refused", "replayed"} => r \notin events \cup apps

-----------------------------------------------------------------------------
(***************************************************************************)
(* What openspec/specs/control-plane-api/spec.md says of a client that     *)
(* retries: both responses identify one durable operation and the side     *)
(* effect executes once.  An import that is retried before its response is *)
(* stored registers a second application.                                  *)
(***************************************************************************)
SideEffectOnce ==
  \A r, s \in Request :
    (call[r] # None /\ call[r] = call[s] /\ {r, s} \subseteq apps) => r = s
=============================================================================
