----------------------------- MODULE ApiProofs -----------------------------
(***************************************************************************)
(* Safety of concurrent, breaking and retried API requests, for any number *)
(* of requests, keys, tokens and applications and any set of calls.        *)
(***************************************************************************)
EXTENDS Api, TLAPS

\* A call that gets past the checks has these marks, which do not change.
Entitled(c) ==
  /\ c \in Call
  /\ c.key \in Key
  /\ c.command \in HumanOnly => Scope[c.token] = "human"
  /\ c.command = "rollback" => c.approver

LetIn(r) == r \notin audit /\ Entitled(call[r])

\* A response that some request with key k worked out and finished.
Genuine(resp, k) ==
  /\ resp.by \in Request
  /\ pc[resp.by] = "answered"
  /\ call[resp.by].key = k
  /\ resp.job = JobOf(resp.by)

Typed ==
  /\ pc \in [Request -> InFlight \cup
               {"new", "refused", "replayed", "answered", "broken"}]
  /\ call \in [Request -> Call \cup {None}]
  /\ replay = [k \in Key |-> replay[k]]
  /\ answer = [r \in Request |-> answer[r]]

\* What a request that has come this far has left behind.
Progress ==
  \A r \in Request :
    /\ pc[r] \in InFlight \cup {"replayed", "answered"} => LetIn(r)
    /\ pc[r] \in {"enqueue", "record", "store", "answered"}
         => JobOf(r).app \in apps
    /\ pc[r] \in {"record", "store", "answered"} => JobOf(r) \in jobs
    /\ pc[r] \in {"store", "answered"} => r \in events

\* What a request that was refused or answered by replay has not done.
Restraint ==
  \A r \in Request :
    /\ pc[r] \in {"new", "refused", "check", "replayed", "load"}
         => r \notin events \cup apps
    /\ pc[r] = "new" => r \notin audit

\* Where jobs and applications come from.
Origins ==
  /\ \A j \in jobs : \E r \in Request :
       /\ pc[r] \in {"record", "store", "answered", "broken"}
       /\ LetIn(r)
       /\ JobOf(r) = j
  /\ \A a \in apps \ Registered :
       /\ a \in Request
       /\ pc[a] # "new"
       /\ LetIn(a)
       /\ call[a].command = "import"

Responses ==
  /\ \A k \in Key : replay[k] # None => Genuine(replay[k], k)
  /\ \A r \in Request :
       pc[r] = "answered" => answer[r] = ResponseOf(r)
  /\ \A r \in Request :
       pc[r] = "replayed" =>
         /\ replay[call[r].key] # None
         /\ answer[r] = replay[call[r].key]

ApiInv == Typed /\ Progress /\ Restraint /\ Origins /\ Responses

-----------------------------------------------------------------------------
(* The job of a call names the command, and the application the call is    *)
(* about: the new one for an import.                                       *)
LEMMA JobForFields ==
  ASSUME NEW r, NEW c
  PROVE  /\ JobFor(r, c).command = c.command
         /\ c.command = "import" => JobFor(r, c).app = r
         /\ c.command # "import" => JobFor(r, c).app = c.app
BY DEF JobFor

(* A call that the checks of the handlers let through is entitled.         *)
LEMMA ChecksEntitle ==
  ASSUME NEW c \in Call, InScope(c), Permitted(c)
  PROVE  Entitled(c)
<1>1. c.key \in Key \cup {NoKey}
  BY ApiAssumption DEF CallShape
<1> QED
  BY <1>1 DEF InScope, Permitted, Entitled

(* Initially nothing has been asked for.                                   *)
LEMMA ApiInit == Init => ApiInv
<1> SUFFICES ASSUME Init PROVE ApiInv
  OBVIOUS
<1>1. Typed
  BY DEF Init, Typed
<1>2. Progress /\ Restraint
  BY ApiAssumption DEF Init, Progress, Restraint, InFlight
<1>3. Origins /\ Responses
  BY DEF Init, Origins, Responses
<1> QED
  BY <1>1, <1>2, <1>3 DEF ApiInv

(* A request arrives and is refused or let in.                             *)
LEMMA ArriveKeeps ==
  ASSUME ApiInv, NEW r \in Request, NEW c \in Call, Arrive(r, c)
  PROVE  ApiInv'
<1> USE DEF InFlight
<1>1. /\ pc[r] = "new" /\ call' = [call EXCEPT ![r] = c]
      /\ \/ /\ pc' = [pc EXCEPT ![r] = "refused"]
            /\ audit' \in {audit, audit \cup {r}}
         \/ /\ pc' = [pc EXCEPT ![r] = "check"]
            /\ audit' = audit
            /\ Entitled(c)
      /\ UNCHANGED <<apps, jobs, replay, events, answer>>
  BY ChecksEntitle DEF Arrive, rate_limit, AuditDenial
<1>2. Typed'
  BY <1>1 DEF ApiInv, Typed
<1>3. \A s \in Request \ {r} :
        /\ pc'[s] = pc[s]
        /\ call'[s] = call[s]
        /\ s \in audit' <=> s \in audit
  BY <1>1 DEF ApiInv, Typed
<1>4. /\ pc'[r] \in {"refused", "check"}
      /\ call'[r] = c
      /\ pc'[r] = "check" => r \notin audit' /\ Entitled(c)
  BY <1>1 DEF ApiInv, Typed, Restraint
<1>5. Progress'
  BY <1>1, <1>3, <1>4 DEF ApiInv, Progress, LetIn, JobOf
<1>6. Restraint'
  BY <1>1, <1>3, <1>4 DEF ApiInv, Restraint
<1>7. Origins'
  <2>1. \A j \in jobs : \E s \in Request \ {r} :
          /\ pc[s] \in {"record", "store", "answered", "broken"}
          /\ LetIn(s)
          /\ JobOf(s) = j
    BY <1>1 DEF ApiInv, Origins
  <2>2. \A j \in jobs' : \E s \in Request :
          /\ pc'[s] \in {"record", "store", "answered", "broken"}
          /\ LetIn(s)'
          /\ JobOf(s)' = j
    BY <2>1, <1>1, <1>3 DEF LetIn, JobOf
  <2>3. \A a \in apps' \ Registered :
          /\ a \in Request
          /\ pc'[a] # "new"
          /\ LetIn(a)'
          /\ call'[a].command = "import"
    BY <1>1, <1>3 DEF ApiInv, Origins, Restraint, LetIn
  <2> QED
    BY <2>2, <2>3 DEF Origins
<1>8. Responses'
  <2>1. \A k \in Key : replay'[k] # None => Genuine(replay[k], k)'
    BY <1>1, <1>3, SMTT(20) DEF ApiInv, Responses, Genuine, JobOf
  <2>2. \A s \in Request : pc'[s] = "answered" => answer'[s] = ResponseOf(s)'
    BY <1>1, <1>3, <1>4 DEF ApiInv, Responses, ResponseOf, JobOf
  <2>3. \A s \in Request :
          pc'[s] = "replayed" =>
            /\ replay'[call'[s].key] # None
            /\ answer'[s] = replay'[call'[s].key]
    BY <1>1, <1>3, <1>4 DEF ApiInv, Responses
  <2> QED
    BY <2>1, <2>2, <2>3 DEF Responses
<1> QED
  BY <1>2, <1>5, <1>6, <1>7, <1>8 DEF ApiInv

(* The key is looked up: a stored response is the answer.                  *)
LEMMA ReplayKeeps ==
  ASSUME ApiInv, NEW r \in Request, check_replay(r)
  PROVE  ApiInv'
<1> USE DEF InFlight
<1>1. Typed'
  BY DEF ApiInv, Typed, check_replay, stores
<1>2. \A s \in Request \ {r} : pc'[s] = pc[s] /\ answer'[s] = answer[s]
  BY DEF ApiInv, Typed, check_replay, stores
<1>3. Progress'
  BY <1>2 DEF ApiInv, Typed, Progress, LetIn, JobOf, check_replay, stores
<1>4. Restraint'
  BY <1>2 DEF ApiInv, Typed, Restraint, check_replay, stores
<1>5. Origins'
  BY <1>2 DEF ApiInv, Typed, Origins, LetIn, JobOf, check_replay, stores
<1>6. Responses'
  BY <1>2, SMTT(20) DEF ApiInv, Typed, Progress, LetIn, Entitled, Responses, Genuine,
              ResponseOf, JobOf, check_replay, stores
<1> QED
  BY <1>1, <1>3, <1>4, <1>5, <1>6 DEF ApiInv

(* An import registers its new application.                               *)
LEMMA ImportKeeps ==
  ASSUME ApiInv, NEW r \in Request, ImportApplication(r)
  PROVE  ApiInv'
<1> USE DEF InFlight
<1>1. Typed'
  BY DEF ApiInv, Typed, ImportApplication
<1>2. \A s \in Request \ {r} : pc'[s] = pc[s] /\ answer'[s] = answer[s]
  BY DEF ApiInv, Typed, ImportApplication
<1>3. Progress'
  BY <1>2, JobForFields DEF ApiInv, Typed, Progress, LetIn, JobOf,
                            ImportApplication
<1>4. Restraint'
  BY <1>2 DEF ApiInv, Typed, Restraint, ImportApplication
<1>5. Origins'
  BY <1>2 DEF ApiInv, Typed, Progress, Origins, LetIn, JobOf, ImportApplication
<1>6. Responses'
  BY <1>2, SMTT(20) DEF ApiInv, Typed, Responses, Genuine, ResponseOf, JobOf,
              ImportApplication
<1> QED
  BY <1>1, <1>3, <1>4, <1>5, <1>6 DEF ApiInv

(* Any other command loads the application it is about.                   *)
LEMMA LoadKeeps ==
  ASSUME ApiInv, NEW r \in Request, LoadApplication(r)
  PROVE  ApiInv'
<1> USE DEF InFlight
<1>1. Typed'
  BY DEF ApiInv, Typed, LoadApplication, stores
<1>2. \A s \in Request \ {r} : pc'[s] = pc[s] /\ answer'[s] = answer[s]
  BY DEF ApiInv, Typed, LoadApplication, stores
<1>3. Progress'
  BY <1>2, JobForFields DEF ApiInv, Typed, Progress, LetIn, JobOf,
                            LoadApplication, stores
<1>4. Restraint'
  BY <1>2 DEF ApiInv, Typed, Restraint, LoadApplication, stores
<1>5. Origins'
  BY <1>2 DEF ApiInv, Typed, Origins, LetIn, JobOf, LoadApplication, stores
<1>6. Responses'
  BY <1>2, SMTT(20) DEF ApiInv, Typed, Responses, Genuine, ResponseOf, JobOf,
              LoadApplication, stores
<1> QED
  BY <1>1, <1>3, <1>4, <1>5, <1>6 DEF ApiInv

(* The job gets its row, unless it has one.                                *)
LEMMA EnqueueKeeps ==
  ASSUME ApiInv, NEW r \in Request, enqueue(r)
  PROVE  ApiInv'
<1> USE DEF InFlight
<1>1. Typed'
  BY DEF ApiInv, Typed, enqueue
<1>2. \A s \in Request \ {r} : pc'[s] = pc[s] /\ answer'[s] = answer[s]
  BY DEF ApiInv, Typed, enqueue
<1>3. Progress'
  BY <1>2 DEF ApiInv, Typed, Progress, LetIn, JobOf, enqueue
<1>4. Restraint'
  BY <1>2 DEF ApiInv, Typed, Restraint, enqueue
<1>5. Origins'
  BY <1>2 DEF ApiInv, Typed, Progress, Origins, LetIn, JobOf, enqueue
<1>6. Responses'
  BY <1>2, SMTT(30) DEF ApiInv, Typed, Responses, Genuine, ResponseOf, JobOf, enqueue
<1> QED
  BY <1>1, <1>3, <1>4, <1>5, <1>6 DEF ApiInv

(* The event is recorded.                                                  *)
LEMMA RecordKeeps ==
  ASSUME ApiInv, NEW r \in Request, record_event(r)
  PROVE  ApiInv'
<1> USE DEF InFlight
<1>1. Typed'
  BY DEF ApiInv, Typed, record_event
<1>2. \A s \in Request \ {r} : pc'[s] = pc[s] /\ answer'[s] = answer[s]
  BY DEF ApiInv, Typed, record_event
<1>3. Progress'
  BY <1>2 DEF ApiInv, Typed, Progress, LetIn, JobOf, record_event
<1>4. Restraint'
  BY <1>2 DEF ApiInv, Typed, Restraint, record_event
<1>5. Origins'
  BY <1>2 DEF ApiInv, Typed, Origins, LetIn, JobOf, record_event
<1>6. Responses'
  BY <1>2, SMTT(30) DEF ApiInv, Typed, Responses, Genuine, ResponseOf, JobOf,
              record_event
<1> QED
  BY <1>1, <1>3, <1>4, <1>5, <1>6 DEF ApiInv

(* The response is stored unless the key has one, and sent.                *)
LEMMA StoreKeeps ==
  ASSUME ApiInv, NEW r \in Request, store_replay(r)
  PROVE  ApiInv'
<1> USE DEF InFlight
<1>1. Typed'
  BY DEF ApiInv, Typed, store_replay
<1>2. \A s \in Request \ {r} : pc'[s] = pc[s] /\ answer'[s] = answer[s]
  BY DEF ApiInv, Typed, store_replay
<1>3. Progress'
  BY <1>2 DEF ApiInv, Typed, Progress, LetIn, JobOf, store_replay
<1>4. Restraint'
  BY <1>2 DEF ApiInv, Typed, Restraint, store_replay
<1>5. Origins'
  BY <1>2 DEF ApiInv, Typed, Origins, LetIn, JobOf, store_replay
<1>6. Responses'
  <2>1. /\ pc'[r] = "answered" /\ answer'[r] = ResponseOf(r)
        /\ call[r].key \in Key
    BY DEF ApiInv, Typed, Progress, LetIn, Entitled, store_replay
  <2>2. \A k \in Key :
          \/ replay'[k] = replay[k]
          \/ replay[k] = None /\ k = call[r].key /\ replay'[k] = ResponseOf(r)
    BY DEF ApiInv, Typed, store_replay
  <2>3. \A k \in Key : replay[k] # None => replay'[k] = replay[k]
    BY DEF ApiInv, Typed, store_replay
  <2>4. call' = call
    BY DEF store_replay
  <2>5. \A k \in Key : replay'[k] # None => Genuine(replay[k], k)'
    <3> SUFFICES ASSUME NEW k \in Key, replay'[k] # None
                 PROVE  Genuine(replay[k], k)'
      OBVIOUS
    <3>1. CASE replay'[k] = replay[k]
      BY <3>1, <1>2, <2>1, <2>4, SMTT(30) DEF ApiInv, Responses, Genuine, JobOf
    <3>2. CASE k = call[r].key /\ replay'[k] = ResponseOf(r)
      BY <3>2, <2>1, <2>4, SMTT(30) DEF Genuine, ResponseOf, JobOf
    <3> QED
      BY <2>2, <3>1, <3>2
  <2>6. \A s \in Request : pc'[s] = "answered" => answer'[s] = ResponseOf(s)'
    BY <1>2, <2>1, <2>4 DEF ApiInv, Responses, ResponseOf, JobOf
  <2>7. \A s \in Request :
          pc'[s] = "replayed" =>
            /\ replay'[call'[s].key] # None
            /\ answer'[s] = replay'[call'[s].key]
    BY <1>2, <2>1, <2>3, <2>4
       DEF ApiInv, Progress, LetIn, Entitled, Responses
  <2> QED
    BY <2>5, <2>6, <2>7 DEF Responses
<1> QED
  BY <1>1, <1>3, <1>4, <1>5, <1>6 DEF ApiInv

(* The request ends where it stands.                                       *)
LEMMA BreakKeeps ==
  ASSUME ApiInv, NEW r \in Request, Break(r)
  PROVE  ApiInv'
<1> USE DEF InFlight
<1>1. Typed'
  BY DEF ApiInv, Typed, Break, stores
<1>2. \A s \in Request \ {r} : pc'[s] = pc[s] /\ answer'[s] = answer[s]
  BY DEF ApiInv, Typed, Break, stores
<1>3. Progress'
  BY <1>2 DEF ApiInv, Typed, Progress, LetIn, JobOf, Break, stores
<1>4. Restraint'
  BY <1>2 DEF ApiInv, Typed, Restraint, Break, stores
<1>5. Origins'
  BY <1>2 DEF ApiInv, Typed, Origins, LetIn, JobOf, Break, stores
<1>6. Responses'
  BY <1>2, SMTT(30) DEF ApiInv, Typed, Responses, Genuine, ResponseOf, JobOf, Break,
              stores
<1> QED
  BY <1>1, <1>3, <1>4, <1>5, <1>6 DEF ApiInv

(* Tokens, workers and the controller change nothing a request left.       *)
LEMMA SurroundingsKeep ==
  ASSUME ApiInv,
         UNCHANGED <<apps, jobs, replay, events, audit, pc, call, answer>>
  PROVE  ApiInv'
<1>1. Typed'
  BY DEF ApiInv, Typed
<1>2. Progress'
  BY DEF ApiInv, Progress, LetIn, JobOf
<1>3. Restraint'
  BY DEF ApiInv, Restraint
<1>4. Origins'
  BY DEF ApiInv, Origins, LetIn, JobOf
<1>5. Responses'
  BY DEF ApiInv, Responses, Genuine, ResponseOf, JobOf
<1> QED
  BY <1>1, <1>2, <1>3, <1>4, <1>5 DEF ApiInv

(* One step per disjunct of Next.                                          *)
LEMMA ApiStep == ApiInv /\ [Next]_vars => ApiInv'
<1> SUFFICES ASSUME ApiInv, [Next]_vars PROVE ApiInv'
  OBVIOUS
<1>1. ASSUME NEW r \in Request, NEW c \in Call, Arrive(r, c) PROVE ApiInv'
  BY <1>1, ArriveKeeps
<1>2. ASSUME NEW r \in Request, Handle(r) PROVE ApiInv'
  BY <1>2, ReplayKeeps, ImportKeeps, LoadKeeps, EnqueueKeeps, RecordKeeps,
     StoreKeeps DEF Handle
<1>3. ASSUME NEW r \in Request, Break(r) PROVE ApiInv'
  BY <1>3, BreakKeeps
<1>4. ASSUME \/ \E t \in tokens : RevokeOrExpire(t)
             \/ \E valid \in SUBSET Token : Reload(valid)
             \/ \E j \in jobs \ done : Settle(j)
             \/ \E d \in Deployment : Observe(d)
      PROVE  ApiInv'
  BY <1>4, SurroundingsKeep DEF RevokeOrExpire, Reload, Settle, Observe, stores
<1>5. CASE UNCHANGED vars
  BY <1>5, SurroundingsKeep DEF vars
<1> QED
  BY <1>1, <1>2, <1>3, <1>4, <1>5 DEF Next

(* The inductive invariant holds in every reachable state.                 *)
LEMMA ApiInvariant == Spec => []ApiInv
BY ApiInit, ApiStep, PTL DEF Spec

-----------------------------------------------------------------------------
(* Every acknowledgement was worked out by a request with the same key that *)
(* went all the way.                                                       *)
LEMMA AcknowledgedHasSource ==
  ASSUME ApiInv, NEW r \in Acknowledged
  PROVE  Genuine(answer[r], call[r].key)
<1>1. CASE pc[r] = "answered"
  <2>1. r \in Request /\ answer[r] = ResponseOf(r)
    BY <1>1 DEF ApiInv, Responses, Acknowledged
  <2>2. answer[r].by = r /\ answer[r].job = JobOf(r)
    BY <2>1 DEF ResponseOf
  <2> QED
    BY <1>1, <2>1, <2>2 DEF Genuine
<1>2. CASE pc[r] = "replayed"
  <2>1. call[r].key \in Key
    BY <1>2 DEF ApiInv, Progress, LetIn, Entitled, Acknowledged
  <2>2. replay[call[r].key] # None /\ answer[r] = replay[call[r].key]
    BY <1>2 DEF ApiInv, Responses, Acknowledged
  <2> QED
    BY <2>1, <2>2 DEF ApiInv, Responses
<1> QED
  BY <1>1, <1>2 DEF Acknowledged

(* A request that is told its mutation was accepted, by its own handler or *)
(* by check_replay, has job, application and event on record, whatever     *)
(* broke before and however requests interleaved.                          *)
THEOREM AcknowledgedStaysOnRecord == Spec => []AcknowledgedOnRecord
<1>1. ApiInv => AcknowledgedOnRecord
  <2> SUFFICES ASSUME ApiInv, NEW r \in Acknowledged
               PROVE  /\ answer[r].job \in jobs
                      /\ answer[r].job.app \in apps
                      /\ answer[r].by \in events
    BY DEF AcknowledgedOnRecord
  <2>1. Genuine(answer[r], call[r].key)
    BY AcknowledgedHasSource
  <2> QED
    BY <2>1 DEF ApiInv, Progress, Genuine
<1> QED
  BY <1>1, ApiInvariant, PTL

(* The replays of a key never disagree with each other, nor with what      *)
(* idempotency_records holds, and come from a request with that key.       *)
THEOREM ReplaysNeverDisagree == Spec => []ReplaysAgree
<1>1. ApiInv => ReplaysAgree
  BY SMTT(30) DEF ApiInv, ReplaysAgree, Responses, Genuine, Progress, LetIn, Entitled
<1> QED
  BY <1>1, ApiInvariant, PTL

(* Retries of one operation on a registered application are all answered   *)
(* with one job, for any number of retries and any interleaving of         *)
(* check_replay, enqueue and store_replay.                                 *)
THEOREM RetriesAgreeOnJob == Spec => []RetriesNameOneJob
<1>1. ApiInv => RetriesNameOneJob
  <2> SUFFICES ASSUME ApiInv, NEW r \in Acknowledged, NEW s \in Acknowledged,
                      call[r].key = call[s].key, OneOperation(call[r].key)
               PROVE  answer[r].job = answer[s].job
    BY DEF RetriesNameOneJob
  <2>1. Genuine(answer[r], call[r].key) /\ Genuine(answer[s], call[s].key)
    BY AcknowledgedHasSource
  <2>2. \A q \in Request : pc[q] = "answered" => call[q] # None
    BY ApiAssumption DEF ApiInv, Progress, LetIn, Entitled
  <2> QED
    BY <2>1, <2>2 DEF OneOperation, Genuine
<1> QED
  BY <1>1, ApiInvariant, PTL

(* No job and no application without a request that was entitled to it,    *)
(* and nothing left by requests that were refused.                         *)
THEOREM EffectsStayAuthorized == Spec => []EffectsAreAuthorized
<1>1. ApiInv => EffectsAreAuthorized
  <2> SUFFICES ASSUME ApiInv PROVE EffectsAreAuthorized
    OBVIOUS
  <2>1. \A j \in jobs : \E r \in Request \ audit :
          /\ pc[r] \notin {"new", "refused", "check", "replayed"}
          /\ JobOf(r) = j
          /\ j.command \in HumanOnly => Scope[call[r].token] = "human"
          /\ j.command = "rollback" => call[r].approver
    BY JobForFields, SMTT(30) DEF ApiInv, Origins, LetIn, Entitled, JobOf
  <2>2. \A r \in apps \ Registered :
          r \notin audit /\ Scope[call[r].token] = "human"
    BY DEF ApiInv, Origins, LetIn, Entitled, HumanOnly
  <2>3. \A r \in Request :
          pc[r] \in {"new", "refused", "replayed"} => r \notin events \cup apps
    BY DEF ApiInv, Restraint
  <2> QED
    BY <2>1, <2>2, <2>3 DEF EffectsAreAuthorized
<1> QED
  BY <1>1, ApiInvariant, PTL
=============================================================================
