----------------------------- MODULE HostProofs -----------------------------
(***************************************************************************)
(* Machine-checked proofs about what the control plane sets up outside     *)
(* itself: previews, provisioned databases and buckets, hostnames.         *)
(*                                                                         *)
(* The three parts share no state; each has an inductive invariant of its  *)
(* own.  A preview is known by what its call, its plan, its container and  *)
(* its rows say of each other; an adapter by what a call in progress may   *)
(* still do to the cache; a hostname by what its delivery was attached to. *)
(***************************************************************************)
EXTENDS Previews, Provisioning, Domains, TLAPS

-----------------------------------------------------------------------------
(* Previews. *)

PreviewStep ==
  {"idle", "checking", "building", "running", "probing", "recording", "judging",
   "cleaning", "storing", "publishing", "returned", "expiring", "revoking",
   "failed", "lost"}

\* Where a call is once a URL may have been issued.
Judged == {"publishing", "returned", "expiring", "revoking", "failed", "lost"}

PreviewTypes ==
  /\ pc \in [Preview -> PreviewStep]
  /\ cut \in [Preview -> PreviewStep \cup {"none"}]
  /\ config \in [Preview -> Config]
  /\ plan \in [Preview -> WebPreview]
  /\ container \in [Preview -> {"none", "running", "ordered", "stray", "stopped", "gone"}]
  /\ port \in [Preview -> {"none", "own"}]
  /\ answer \in [Preview -> Answer]
  /\ row \in [Preview -> Row \cup {NoRow}]
  /\ closed \in [Preview -> {"open", "expired", "revoked"}]

\* A process answered the probe, in a way that counts as healthy.
Answered(p) ==
  /\ config[p].network # "disabled"
  /\ \/ answer[p] = "2xx"
     \/ answer[p] = "3xx" /\ config[p].profile = "development"

\* What the plan, the call and the rows of a preview say of each other.
UrlInv(p) ==
  /\ plan[p].url => pc[p] \in Judged /\ Answered(p)
  /\ row[p].url => row[p].status = "available" /\ plan[p].url

\* An expired plan is never taken up again.
ExpiryInv(p) ==
  /\ plan[p].status = "expired" => pc[p] \in {"returned", "expiring", "revoking", "lost"}
  /\ pc[p] = "expiring" => plan[p].status = "expired"
  /\ closed[p] = "expired" => plan[p].status = "expired" /\ ~row[p].url

\* A container that runs is on record, or its call has not come that far.
LeakInv(p) ==
  /\ cut[p] # "none" => pc[p] \in {"failed", "lost"}
  /\ container[p] = "running" =>
       \/ p \in runs
       \/ pc[p] \in {"probing", "recording"}
       \/ cut[p] \in {"probing", "recording"}

PreviewInv ==
  PreviewTypes /\ \A p \in Preview : UrlInv(p) /\ ExpiryInv(p) /\ LeakInv(p)

PreviewCall(p) ==
  \/ Start(p) \/ DaemonStarts(p)
  \/ ExpirePreview(p) \/ RevokePreview(p) \/ EndAccess(p)

\* The operations of a plan give a plan, and only a healthy probe issues a URL.
LEMMA PlanTypes ==
  ASSUME NEW w \in WebPreview
  PROVE  /\ notify_build_started(w) \in WebPreview
         /\ \A result \in BuildStatus : record_build(w, result) \in WebPreview
         /\ \A health \in HealthStatus : record_health(w, health) \in WebPreview
         /\ expire(w) \in WebPreview
<1> USE DEF WebPreview, PreviewStatus
<1>1. notify_build_started(w) \in WebPreview
  BY DEF notify_build_started
<1>2. \A result \in BuildStatus : record_build(w, result) \in WebPreview
  BY DEF record_build
<1>3. \A health \in HealthStatus : record_health(w, health) \in WebPreview
  BY DEF record_health, HealthStatus
<1>4. expire(w) \in WebPreview
  BY DEF expire
<1>5. QED
  BY <1>1, <1>2, <1>3, <1>4

\* Only a healthy probe gives a plan a URL, and only expire() makes it expired.
LEMMA PlanChanges ==
  ASSUME NEW w \in WebPreview
  PROVE  /\ notify_build_started(w).url = w.url
         /\ notify_build_started(w).status # "expired"
         /\ \A result : record_build(w, result).url = w.url
         /\ \A result : record_build(w, result).status = "expired" <=> w.status = "expired"
         /\ \A health \in HealthStatus \ {"healthy"} : record_health(w, health).url = w.url
         /\ \A health \in HealthStatus :
              record_health(w, health).status = "expired" <=> w.status = "expired"
         /\ expire(w).url = w.url
         /\ expire(w).status = "expired"
<1> USE DEF WebPreview, PreviewStatus
<1>1. notify_build_started(w).url = w.url /\ notify_build_started(w).status # "expired"
  BY DEF notify_build_started
<1>2. \A result : /\ record_build(w, result).url = w.url
                  /\ record_build(w, result).status = "expired" <=> w.status = "expired"
  BY DEF record_build
<1>3. \A health \in HealthStatus \ {"healthy"} : record_health(w, health).url = w.url
  BY DEF record_health, HealthStatus
<1>4. \A health \in HealthStatus :
        record_health(w, health).status = "expired" <=> w.status = "expired"
  BY DEF record_health, HealthStatus
<1>5. expire(w).url = w.url /\ expire(w).status = "expired"
  BY DEF expire
<1>6. QED
  BY <1>1, <1>2, <1>3, <1>4, <1>5

\* A probe is healthy on an answer only, from behind an exposed port.
LEMMA HealthyIsAnswered ==
  ASSUME NEW c \in Config, NEW status \in Answer
  PROVE  /\ probe_health(c, status) \in HealthStatus
         /\ probe_health(c, status) = "healthy" =>
              /\ c.network # "disabled"
              /\ status = "2xx" \/ (status = "3xx" /\ c.profile = "development")
  BY PreviewAssumption
     DEF probe_health, evaluate_health, allows_port_exposure, HealthStatus, ConfigShape, Answer

\* Every variable keeps its type.
LEMMA PreviewTypesStep ==
  ASSUME PreviewTypes, [PreviewsNext]_previews
  PROVE  PreviewTypes'
<1>1. CASE Crash
  BY <1>1 DEF Crash, PreviewTypes, PreviewStep
<1>2. CASE UNCHANGED previews
  BY <1>2 DEF previews, PreviewTypes
<1>3. CASE \E p \in Preview : PreviewCall(p)
  <2>0. PICK p \in Preview : PreviewCall(p)
    BY <1>3
  <2>a. /\ \/ \E step \in PreviewStep : Go(p, step)
           \/ Give(p)
           \/ UNCHANGED <<pc, cut>>
        /\ UNCHANGED config
    BY <2>0, Zenon
       DEF PreviewCall, Start, Begin, CheckAvailable, Build, RunStarted, RunFailed, Probe,
           RecordRun, RecordHealth, Clean, Store, DaemonStarts, ExpirePreview,
           RevokePreview, EndAccess, PreviewStep
  <2>1. pc' \in [Preview -> PreviewStep] /\ cut' \in [Preview -> PreviewStep \cup {"none"}]
        /\ config' \in [Preview -> Config]
    BY <2>a DEF PreviewTypes, Go, Give, PreviewStep
  <2>2. plan' \in [Preview -> WebPreview]
    <3>1. plan[p] \in WebPreview /\ plan \in [Preview -> WebPreview]
          /\ probe_health(config[p], answer[p]) \in HealthStatus
      BY HealthyIsAnswered DEF PreviewTypes
    <3>2. CASE Begin(p) \/ ExpirePreview(p)
      BY <3>1, <3>2, PlanTypes DEF Begin, ExpirePreview, Give
    <3>3. CASE RecordHealth(p)
      BY <3>1, <3>3, PlanTypes, Zenon DEF RecordHealth, Give
    <3>4. CASE CheckAvailable(p) \/ RunFailed(p) \/ RevokePreview(p)
      BY <3>1, <3>4, PlanTypes DEF CheckAvailable, RunFailed, RevokePreview, BuildStatus
    <3>5. CASE Build(p)
      BY <3>1, <3>5, PlanTypes DEF Build, docker_build, BuildStatus, Give
    <3>6. CASE \/ RunStarted(p) \/ Probe(p) \/ RecordRun(p) \/ Clean(p) \/ Store(p)
               \/ DaemonStarts(p) \/ EndAccess(p)
      BY <3>1, <3>6, Zenon DEF RunStarted, Probe, RecordRun, Clean, Store, DaemonStarts, EndAccess, Give
    <3>7. QED
      BY <2>0, <3>2, <3>3, <3>4, <3>5, <3>6 DEF PreviewCall, Start
  <2>3. container' \in [Preview -> {"none", "running", "ordered", "stray", "stopped", "gone"}]
    <3>1. CASE RunStarted(p) \/ RunFailed(p) \/ DaemonStarts(p)
      BY <3>1 DEF PreviewTypes, RunStarted, RunFailed, DaemonStarts, run_docker_fails
    <3>2. CASE Clean(p) \/ ExpirePreview(p) \/ RevokePreview(p)
      BY <3>2 DEF PreviewTypes, Clean, ExpirePreview, RevokePreview, Cleaned, cleanup
    <3>3. CASE \/ Begin(p) \/ CheckAvailable(p) \/ Build(p) \/ Probe(p) \/ RecordRun(p)
               \/ RecordHealth(p) \/ Store(p) \/ EndAccess(p)
      BY <3>3, Zenon DEF PreviewTypes, Begin, CheckAvailable, Build, Probe, RecordRun, RecordHealth,
                  Store, EndAccess
    <3>4. QED
      BY <2>0, <3>1, <3>2, <3>3 DEF PreviewCall, Start
  <2>4. port' \in [Preview -> {"none", "own"}] /\ answer' \in [Preview -> Answer]
    <3>1. CASE RunStarted(p)
      BY <3>1 DEF PreviewTypes, RunStarted, inspect_host_port
    <3>2. CASE Probe(p)
      BY <3>2 DEF PreviewTypes, Probe, Answers, Answer
    <3>3. CASE \/ Begin(p) \/ CheckAvailable(p) \/ Build(p) \/ RunFailed(p) \/ RecordRun(p)
               \/ RecordHealth(p) \/ Clean(p) \/ Store(p) \/ DaemonStarts(p)
               \/ ExpirePreview(p) \/ RevokePreview(p) \/ EndAccess(p)
      BY <3>3, Zenon DEF PreviewTypes, Begin, CheckAvailable, Build, RunFailed, RecordRun, RecordHealth,
                  Clean, Store, DaemonStarts, ExpirePreview, RevokePreview, EndAccess
    <3>4. QED
      BY <2>0, <3>1, <3>2, <3>3 DEF PreviewCall, Start
  <2>5. row' \in [Preview -> Row \cup {NoRow}]
    <3>1. \A named \in BOOLEAN :
            [status |-> plan[p].status, url |-> temporary_url(plan[p]), container |-> named] \in Row
      BY Zenon DEF PreviewTypes, WebPreview, Row, temporary_url
    <3>2. UNCHANGED row \/ \E named \in BOOLEAN : upsert(p, named)
      BY <2>0, Zenon
         DEF PreviewCall, Start, Begin, CheckAvailable, Build, RunStarted, RunFailed, Probe,
             RecordRun, RecordHealth, Clean, Store, DaemonStarts, ExpirePreview,
             RevokePreview, EndAccess
    <3>3. QED
      BY <3>1, <3>2 DEF upsert, PreviewTypes
  <2>6. closed' \in [Preview -> {"open", "expired", "revoked"}]
    BY <2>0, Zenon
       DEF PreviewTypes, PreviewCall, Start, Begin, CheckAvailable, Build, RunStarted, RunFailed,
           Probe, RecordRun, RecordHealth, Clean, Store, DaemonStarts, ExpirePreview,
           RevokePreview, EndAccess
  <2>7. QED
    BY <2>1, <2>2, <2>3, <2>4, <2>5, <2>6 DEF PreviewTypes
<1>4. QED
  BY <1>1, <1>2, <1>3 DEF PreviewsNext, PreviewCall

\* A step of one preview leaves the others as they are.
LEMMA PreviewsAreApart ==
  ASSUME PreviewTypes, NEW p \in Preview, PreviewCall(p), NEW q \in Preview \ {p}
  PROVE  /\ pc'[q] = pc[q] /\ cut'[q] = cut[q] /\ config'[q] = config[q]
         /\ plan'[q] = plan[q] /\ container'[q] = container[q] /\ answer'[q] = answer[q]
         /\ row'[q] = row[q] /\ closed'[q] = closed[q] /\ (q \in runs => q \in runs')
<1> USE DEF PreviewTypes
<1>1. pc'[q] = pc[q] /\ cut'[q] = cut[q] /\ config'[q] = config[q]
  BY Zenon DEF PreviewCall, Start, Begin, CheckAvailable, Build, RunStarted, RunFailed, Probe,
         RecordRun, RecordHealth, Clean, Store, DaemonStarts, ExpirePreview,
         RevokePreview, EndAccess, Go, Give
<1>2. plan'[q] = plan[q]
  BY Zenon DEF PreviewCall, Start, Begin, CheckAvailable, Build, RunStarted, RunFailed, Probe,
         RecordRun, RecordHealth, Clean, Store, DaemonStarts, ExpirePreview,
         RevokePreview, EndAccess, Give
<1>3. container'[q] = container[q] /\ answer'[q] = answer[q]
  <2>1. CASE \/ RunStarted(p) \/ RunFailed(p) \/ DaemonStarts(p) \/ Clean(p)
             \/ ExpirePreview(p) \/ RevokePreview(p)
    BY <2>1 DEF RunStarted, RunFailed, DaemonStarts, Clean, ExpirePreview, RevokePreview, Cleaned
  <2>2. CASE \/ Begin(p) \/ CheckAvailable(p) \/ Build(p) \/ Probe(p) \/ RecordRun(p)
             \/ RecordHealth(p) \/ Store(p) \/ EndAccess(p)
    BY <2>2, Zenon DEF Begin, CheckAvailable, Build, Probe, RecordRun, RecordHealth, Store, EndAccess
  <2>3. QED
    BY <2>1, <2>2, Zenon DEF PreviewCall, Start
<1>4. row'[q] = row[q] /\ closed'[q] = closed[q] /\ (q \in runs => q \in runs')
  <2>1. CASE \/ Begin(p) \/ CheckAvailable(p) \/ Build(p) \/ RunStarted(p) \/ RunFailed(p)
             \/ Probe(p) \/ RecordHealth(p) \/ Clean(p) \/ DaemonStarts(p)
    BY <2>1, Zenon DEF Begin, CheckAvailable, Build, RunStarted, RunFailed, Probe, RecordHealth,
                       Clean, DaemonStarts
  <2>2. CASE \/ RecordRun(p) \/ Store(p) \/ ExpirePreview(p) \/ RevokePreview(p) \/ EndAccess(p)
    BY <2>2, Zenon DEF RecordRun, Store, ExpirePreview, RevokePreview, EndAccess, upsert
  <2>3. QED
    BY <2>1, <2>2, Zenon DEF PreviewCall, Start
<1>5. QED
  BY <1>1, <1>2, <1>3, <1>4, Zenon

\* What a plan comes to in a step: a URL is issued by a healthy probe alone, and
\* a plan is expired, and stays so, by expire_preview alone.
LEMMA PlanSteps ==
  ASSUME PreviewTypes, NEW p \in Preview, PreviewCall(p)
  PROVE  /\ plan'[p].url =>
              \/ plan[p].url
              \/ RecordHealth(p) /\ probe_health(config[p], answer[p]) = "healthy"
                                 /\ pc'[p] = "publishing"
         /\ plan[p].url => plan'[p].url
         /\ plan'[p].status = "expired" => plan[p].status = "expired" \/ ExpirePreview(p)
         /\ plan[p].status = "expired" => plan'[p].status = "expired" \/ pc[p] = "idle"
         /\ ExpirePreview(p) => plan'[p].status = "expired"
<1>1. plan[p] \in WebPreview /\ plan \in [Preview -> WebPreview]
      /\ pc \in [Preview -> PreviewStep] /\ probe_health(config[p], answer[p]) \in HealthStatus
  BY HealthyIsAnswered DEF PreviewTypes
<1>2. CASE Begin(p)
  <2>1. pc[p] = "idle" /\ plan'[p] \in {notify_build_started(plan[p]), plan[p]}
    BY <1>1, <1>2 DEF Begin, Give
  <2>2. ~ExpirePreview(p)
    BY <2>1 DEF ExpirePreview
  <2>3. QED
    BY <1>1, <2>1, <2>2, PlanChanges
<1>3. CASE ExpirePreview(p)
  BY <1>1, <1>3, PlanChanges, Zenon DEF ExpirePreview
<1>4. CASE CheckAvailable(p) \/ RunFailed(p) \/ RevokePreview(p) \/ Build(p)
  <2>1. UNCHANGED plan \/ \E result : plan' = [plan EXCEPT ![p] = record_build(plan[p], result)]
    BY <1>4, Zenon DEF CheckAvailable, RunFailed, RevokePreview, Build, Give
  <2>2. ~ExpirePreview(p) \/ RevokePreview(p)
    BY <1>1, <1>4, Zenon DEF CheckAvailable, RunFailed, RevokePreview, Build, ExpirePreview
  <2>3. CASE UNCHANGED plan
    BY <2>3, <1>3, Zenon
  <2>4. CASE ~UNCHANGED plan
    <3>1. PICK result : plan' = [plan EXCEPT ![p] = record_build(plan[p], result)]
      BY <2>1, <2>4
    <3>2. plan'[p].url = plan[p].url /\ (plan'[p].status = "expired" <=> plan[p].status = "expired")
      BY <1>1, <3>1, PlanChanges
    <3>3. QED
      BY <1>3, <3>2, Zenon
  <2>5. QED
    BY <2>3, <2>4, Zenon
<1>5. CASE RecordHealth(p)
  <2>1. ~ExpirePreview(p)
    BY <1>5, Zenon DEF RecordHealth, ExpirePreview
  <2>2. CASE UNCHANGED plan
    BY <2>1, <2>2
  <2>3. CASE ~UNCHANGED plan
    <3> DEFINE health == probe_health(config[p], answer[p])
    <3>1. /\ plan'[p] = record_health(plan[p], health)
          /\ pc'[p] = IF health = "healthy" THEN "publishing" ELSE "cleaning"
      BY <1>1, <1>5, <2>3, Zenon DEF RecordHealth, Go, Give
    <3>2. health # "healthy" => plan'[p].url = plan[p].url
      BY <1>1, <3>1, PlanChanges
    <3>3. health = "healthy" /\ plan[p].url => plan'[p].url
      BY <1>1, <3>1 DEF record_health, WebPreview
    <3>4. plan'[p].status = "expired" <=> plan[p].status = "expired"
      BY <1>1, <3>1, PlanChanges
    <3>5. QED
      BY <1>5, <2>1, <3>1, <3>2, <3>3, <3>4, Zenon
  <2>4. QED
    BY <2>2, <2>3
<1>6. CASE \/ RunStarted(p) \/ Probe(p) \/ RecordRun(p) \/ Clean(p) \/ Store(p)
           \/ DaemonStarts(p) \/ EndAccess(p)
  <2>1. UNCHANGED plan
    BY <1>6, Zenon DEF RunStarted, Probe, RecordRun, Clean, Store, DaemonStarts, EndAccess, Give
  <2>2. QED
    BY <1>3, <2>1, Zenon
<1>7. QED
  BY <1>2, <1>3, <1>4, <1>5, <1>6, Zenon DEF PreviewCall, Start

\* The order of the steps, as far as the invariants need it.
LEMMA PreviewOrder ==
  ASSUME PreviewTypes, NEW p \in Preview, PreviewCall(p)
  PROVE  /\ config'[p] = config[p]
         /\ pc[p] \in Judged => pc'[p] \in Judged /\ answer'[p] = answer[p]
         /\ RecordHealth(p) => answer'[p] = answer[p]
         /\ pc[p] \in {"returned", "expiring", "revoking", "lost"} =>
              pc'[p] \in {"returned", "expiring", "revoking", "lost"}
         /\ pc'[p] = "expiring" => ExpirePreview(p) \/ (pc[p] = "expiring" /\ UNCHANGED plan)
         /\ ExpirePreview(p) => pc'[p] = "expiring"
<1> USE DEF PreviewTypes
<1>1. CASE Begin(p) \/ CheckAvailable(p) \/ Build(p)
  BY <1>1, Zenon DEF Begin, CheckAvailable, Build, Go, Give, Judged, RecordHealth, ExpirePreview
<1>2. CASE RunStarted(p) \/ RunFailed(p) \/ Probe(p)
  BY <1>2, Zenon DEF RunStarted, RunFailed, Probe, Go, Judged, RecordHealth, ExpirePreview
<1>3. CASE RecordRun(p) \/ RecordHealth(p) \/ Clean(p)
  BY <1>3, Zenon DEF RecordRun, RecordHealth, Clean, Go, Give, Judged, ExpirePreview
<1>4. CASE Store(p)
  BY <1>4, Zenon DEF Store, Go, Give, Judged, RecordHealth, ExpirePreview
<1>5. CASE DaemonStarts(p)
  BY <1>5, Zenon DEF DaemonStarts, RecordHealth, ExpirePreview, Go
<1>6. CASE ExpirePreview(p) \/ RevokePreview(p) \/ EndAccess(p)
  BY <1>6, Zenon DEF ExpirePreview, RevokePreview, EndAccess, Go, Judged, RecordHealth
<1>7. QED
  BY <1>1, <1>2, <1>3, <1>4, <1>5, <1>6, Zenon DEF PreviewCall, Start

\* A row is written from the plan as it is, and closed with it.
LEMMA RowSteps ==
  ASSUME PreviewTypes, NEW p \in Preview, PreviewCall(p)
  PROVE  /\ \/ row'[p] = row[p]
            \/ /\ row'[p].status = plan[p].status
               /\ row'[p].url = temporary_url(plan[p])
               /\ plan'[p] = plan[p]
         /\ closed'[p] # closed[p] =>
              /\ row'[p].url = temporary_url(plan[p])
              /\ closed'[p] = "expired" => pc[p] = "expiring" /\ plan'[p] = plan[p]
<1> USE DEF PreviewTypes
<1>1. CASE Store(p)
  BY <1>1 DEF Store, upsert, Give
<1>2. CASE EndAccess(p)
  BY <1>2 DEF EndAccess, upsert
<1>3. CASE ~Store(p) /\ ~EndAccess(p)
  BY <1>3, Zenon
     DEF PreviewCall, Start, Begin, CheckAvailable, Build, RunStarted, RunFailed, Probe,
         RecordRun, RecordHealth, Clean, DaemonStarts, ExpirePreview, RevokePreview
<1>4. QED
  BY <1>1, <1>2, <1>3, Zenon

\* A step on a preview leaves a URL only where the probe was answered.
LEMMA UrlStep ==
  ASSUME PreviewInv, NEW p \in Preview, PreviewCall(p)
  PROVE  UrlInv(p)'
<1>t. PreviewTypes /\ UrlInv(p)
  BY DEF PreviewInv
<1>1. plan'[p].url => pc'[p] \in Judged /\ Answered(p)'
  <2>1. CASE plan[p].url
    BY <1>t, <2>1, PreviewOrder, Zenon DEF UrlInv, Answered
  <2>2. CASE ~plan[p].url
    <3>1. SUFFICES ASSUME plan'[p].url PROVE pc'[p] \in Judged /\ Answered(p)'
      OBVIOUS
    <3>2. /\ RecordHealth(p) /\ pc'[p] = "publishing"
          /\ probe_health(config[p], answer[p]) = "healthy"
      BY <1>t, <2>2, <3>1, PlanSteps, Zenon
    <3>3. Answered(p)
      BY <1>t, <3>2, HealthyIsAnswered DEF PreviewTypes, Answered
    <3>4. QED
      BY <1>t, <3>2, <3>3, PreviewOrder, Zenon DEF Answered, Judged
  <2>3. QED
    BY <2>1, <2>2, Zenon
<1>2. row'[p].url => row'[p].status = "available" /\ plan'[p].url
  <2>1. CASE row'[p] = row[p]
    BY <1>t, <2>1, PlanSteps, Zenon DEF UrlInv
  <2>2. CASE row'[p] # row[p]
    BY <1>t, <2>2, RowSteps, Zenon DEF temporary_url
  <2>3. QED
    BY <2>1, <2>2, Zenon
<1>3. QED
  BY <1>1, <1>2, Zenon DEF UrlInv

\* A step on a preview takes up no plan that has expired.
LEMMA ExpiryStep ==
  ASSUME PreviewInv, NEW p \in Preview, PreviewCall(p)
  PROVE  ExpiryInv(p)'
<1>t. PreviewTypes /\ ExpiryInv(p)
  BY DEF PreviewInv
<1>1. plan'[p].status = "expired" => pc'[p] \in {"returned", "expiring", "revoking", "lost"}
  BY <1>t, PlanSteps, PreviewOrder, Zenon DEF ExpiryInv
<1>2. pc'[p] = "expiring" => plan'[p].status = "expired"
  BY <1>t, PlanSteps, PreviewOrder, Zenon DEF ExpiryInv
<1>3. ASSUME closed'[p] = "expired" PROVE plan'[p].status = "expired" /\ ~row'[p].url
  <2>1. CASE closed[p] = "expired"
    <3>1. plan[p].status = "expired" /\ ~row[p].url /\ pc[p] # "idle"
      BY <1>t, <2>1 DEF ExpiryInv
    <3>2. plan'[p].status = "expired"
      BY <1>t, <3>1, PlanSteps, Zenon
    <3>3. QED
      BY <1>t, <3>1, <3>2, RowSteps, Zenon DEF temporary_url
  <2>2. CASE closed[p] # "expired"
    <3>1. pc[p] = "expiring" /\ plan'[p] = plan[p] /\ row'[p].url = temporary_url(plan[p])
      BY <1>t, <1>3, <2>2, RowSteps
    <3>2. QED
      BY <1>t, <3>1, Zenon DEF ExpiryInv, temporary_url
  <2>3. QED
    BY <2>1, <2>2
<1>4. QED
  BY <1>1, <1>2, <1>3, Zenon DEF ExpiryInv

\* A step on a preview leaves no running container without a row, unless its
\* call was cut off before it could record one.
LEMMA LeakStep ==
  ASSUME PreviewInv, NEW p \in Preview, PreviewCall(p)
  PROVE  LeakInv(p)'
<1> USE DEF PreviewTypes, LeakInv
<1>t. PreviewTypes /\ LeakInv(p)
  BY Zenon DEF PreviewInv
<1>1. CASE Begin(p) \/ CheckAvailable(p) \/ Build(p) \/ Probe(p) \/ RecordHealth(p)
  BY <1>t, <1>1, Zenon DEF Begin, CheckAvailable, Build, Probe, RecordHealth, Go, Give
<1>2. CASE RunStarted(p) \/ RunFailed(p)
  BY <1>t, <1>2, Zenon DEF RunStarted, RunFailed, run_docker_fails, Go
<1>3. CASE RecordRun(p)
  BY <1>t, <1>3, Zenon DEF RecordRun, Go, Give
<1>4. CASE Store(p) \/ EndAccess(p)
  BY <1>t, <1>4, Zenon DEF Store, EndAccess, Go, Give
<1>5. CASE DaemonStarts(p)
  BY <1>t, <1>5, Zenon DEF DaemonStarts
<1>6. CASE Clean(p) \/ ExpirePreview(p) \/ RevokePreview(p)
  <2>1. container'[p] = "running" => container[p] = "running"
    BY <1>t, <1>6 DEF Clean, ExpirePreview, RevokePreview, Cleaned, cleanup
  <2>2. QED
    BY <1>t, <1>6, <2>1, Zenon DEF Clean, ExpirePreview, RevokePreview, Go
<1>7. QED
  BY <1>1, <1>2, <1>3, <1>4, <1>5, <1>6, Zenon DEF PreviewCall, Start

\* A crash ends calls; plans, containers and rows are as they were.
LEMMA CrashKeeps ==
  ASSUME PreviewInv, Crash, NEW p \in Preview
  PROVE  UrlInv(p)' /\ ExpiryInv(p)' /\ LeakInv(p)'
<1>1. /\ pc'[p] = IF pc[p] \in {"idle", "failed"} THEN pc[p] ELSE "lost"
      /\ cut'[p] = IF pc[p] \in {"idle", "failed", "lost"} THEN cut[p] ELSE pc[p]
      /\ UNCHANGED <<config, plan, container, port, answer, runs, row, closed>>
  BY Zenon DEF Crash, PreviewInv, PreviewTypes
<1>2. UrlInv(p)'
  BY <1>1, Zenon DEF PreviewInv, UrlInv, Judged, Answered
<1>3. ExpiryInv(p)'
  BY <1>1, Zenon DEF PreviewInv, ExpiryInv
<1>4. LeakInv(p)'
  BY <1>1, Zenon DEF PreviewInv, LeakInv
<1>5. QED
  BY <1>2, <1>3, <1>4

\* Every step on any preview preserves the invariant.
LEMMA PreviewInvStep == PreviewInv /\ [PreviewsNext]_previews => PreviewInv'
<1> SUFFICES ASSUME PreviewInv, [PreviewsNext]_previews PROVE PreviewInv'
  OBVIOUS
<1>1. PreviewTypes'
  BY PreviewTypesStep DEF PreviewInv
<1>2. ASSUME NEW p \in Preview, PreviewCall(p), NEW q \in Preview
      PROVE  UrlInv(q)' /\ ExpiryInv(q)' /\ LeakInv(q)'
  <2>1. CASE q = p
    BY <1>2, <2>1, UrlStep, ExpiryStep, LeakStep
  <2>2. CASE q # p
    <3>1. UrlInv(q) /\ ExpiryInv(q) /\ LeakInv(q) /\ PreviewTypes
      BY DEF PreviewInv
    <3>2. QED
      BY <1>2, <2>2, <3>1, PreviewsAreApart DEF UrlInv, ExpiryInv, LeakInv, Answered
  <2>3. QED
    BY <2>1, <2>2
<1>3. CASE UNCHANGED previews
  BY <1>1, <1>3, Zenon DEF previews, PreviewInv, UrlInv, ExpiryInv, LeakInv, Answered
<1>4. QED
  BY <1>1, <1>2, <1>3, CrashKeeps DEF PreviewInv, PreviewsNext, PreviewCall

\* The invariant of the previews: their types, and how each one's plan, call,
\* container and rows agree.
THEOREM PreviewInvariant == PreviewsInit /\ [][PreviewsNext]_previews => []PreviewInv
<1>1. PreviewsInit => PreviewInv
  BY DEF PreviewsInit, PreviewInv, PreviewTypes, PreviewStep, WebPreview, PreviewStatus, New,
         Answer, Row, NoRow, UrlInv, ExpiryInv, LeakInv
<1>2. QED
  BY <1>1, PreviewInvStep, PTL

\* Whatever fails on the way, a URL on record belongs to a preview that a
\* process answered on the port probed for it.
THEOREM UrlsAreAnswered == PreviewsInit /\ [][PreviewsNext]_previews => []UrlMeansAnswered
<1>1. PreviewInv => UrlMeansAnswered
  BY Zenon DEF PreviewInv, UrlInv, Answered, UrlMeansAnswered
<1>2. QED
  BY <1>1, PreviewInvariant, PTL

\* A preview that was expired stays closed, whatever is done with its plan.
THEOREM ExpiryIsFinal == PreviewsInit /\ [][PreviewsNext]_previews => []ExpiredStaysClosed
<1>1. PreviewInv => ExpiredStaysClosed
  BY Zenon DEF PreviewInv, UrlInv, ExpiryInv, ExpiredStaysClosed
<1>2. QED
  BY <1>1, PreviewInvariant, PTL

\* A container that docker run reported is never off the record, but for calls
\* cut short between docker run and the write.
THEOREM ContainersAreKnown == PreviewsInit /\ [][PreviewsNext]_previews => []LeaksAreKnown
<1>1. PreviewInv => LeaksAreKnown
  BY DEF PreviewInv, LeakInv, LeaksAreKnown
<1>2. QED
  BY <1>1, PreviewInvariant, PTL

-----------------------------------------------------------------------------
(* Provisioned databases and buckets. *)

ProvisioningNext == PostgresNext \/ StorageNext

\* The steps of a provision once its secret is minted, and those of a delete.
MintedSteps == {"create_role", "create_database", "grant", "insert"}

DeleteSteps == {"delete_db", "drop_database", "delete_role", "drop_role", "forget"}

BucketSteps == {"check", "mkdir", "chmod", "mint"}

CallStep ==
  {"none", "role", "database", "has_role", "has_db", "has_no_role", "adopt_db",
   "adopt_role", "ready?", "revoke", "rmdir"}
    \cup MintedSteps \cup DeleteSteps \cup BucketSteps

CallRecord ==
  [at : CallStep, kind : {"none", "postgres", "storage"},
   action : {"none", "provision", "readiness", "adopt", "delete"},
   secret : Nat, alone : BOOLEAN]

\* A call is at a step of its own action, with a secret once it is minted.
InOrder(r) ==
  /\ r.kind = "postgres" => (r.action = "delete" <=> r.at \in DeleteSteps)
  /\ r.kind = "storage" => (r.action = "provision" <=> r.at \in BucketSteps)
  /\ r.at \in MintedSteps => r.secret # 0

CallsInv ==
  /\ role \in Nat /\ credential \in Nat /\ minted \in Nat /\ faults \in Nat
  /\ database \in BOOLEAN /\ bucket \in BOOLEAN /\ torn \in BOOLEAN
  /\ scoped_key \in [id : Nat, live : BOOLEAN]
  /\ calls \in [Caller -> CallRecord]
  /\ \A c \in Caller : InOrder(calls[c])

\* A bucket's call that is alone is the only one.
AloneInv ==
  \A c, d \in Caller :
    c # d /\ calls[c].kind = "storage" /\ calls[c].alone => calls[d].kind # "storage"

\* What an undisturbed provision of a bucket has made is still there.
BucketInv ==
  \A c \in Caller :
    calls[c].kind = "storage" /\ calls[c].alone /\ calls[c].at \in {"chmod", "mint"} => bucket

Deletes(c) == calls[c].kind = "postgres" /\ calls[c].action = "delete"

\* Unless a delete failed or had company, deletes have none, the role is that
\* of the provision in progress, and a credential in memory is the role's.
CacheInv ==
  ~torn =>
    /\ \A c, d \in Caller : c # d /\ Deletes(c) => calls[d].kind # "postgres"
    /\ \A c \in Caller :
         calls[c].kind = "postgres" /\ calls[c].at \in MintedSteps \ {"create_role"} =>
           role = calls[c].secret
    /\ credential # 0 /\ (\A c \in Caller : ~Deletes(c)) => role = credential

\* A step of a call either ends it or takes it on.
Onward(r, old) ==
  \/ r = NoCall
  \/ r.kind = old.kind /\ r.action = old.action /\ r.alone = old.alone

\* A caller that is not in a call is in order.
LEMMA NoCallInOrder ==
  /\ NoCall \in CallRecord /\ InOrder(NoCall)
  /\ NoCall.kind = "none" /\ NoCall.action = "none" /\ NoCall.at = "none"
  BY Zenon DEF NoCall, CallRecord, InOrder, CallStep, MintedSteps

\* A call that goes on within its own action stays in order.
LEMMA StepInOrder ==
  ASSUME CallsInv, NEW c \in Caller, NEW at \in CallStep, Step(c, at),
         at \notin MintedSteps \/ calls[c].at \in MintedSteps,
         calls[c].kind = "postgres" => (at \in DeleteSteps <=> calls[c].at \in DeleteSteps),
         calls[c].kind = "storage" => (at \in BucketSteps <=> calls[c].at \in BucketSteps)
  PROVE  \E r \in CallRecord :
           InOrder(r) /\ Onward(r, calls[c]) /\ calls' = [calls EXCEPT ![c] = r]
<1> DEFINE r == [calls[c] EXCEPT !.at = at]
<1>1. calls[c] \in CallRecord /\ InOrder(calls[c])
  BY DEF CallsInv
<1>2. r \in CallRecord
  BY <1>1 DEF CallRecord
<1>3. InOrder(r) /\ Onward(r, calls[c])
  BY <1>1 DEF InOrder, Onward, CallRecord
<1>4. calls' = [calls EXCEPT ![c] = r]
  BY DEF Step
<1>5. QED
  BY <1>2, <1>3, <1>4, Zenon

\* A call that returns, ready or not, leaves its caller in order.
LEMMA EndInOrder ==
  ASSUME CallsInv, NEW c \in Caller, Ready(c) \/ NotReady(c)
  PROVE  \E r \in CallRecord :
           InOrder(r) /\ Onward(r, calls[c]) /\ calls' = [calls EXCEPT ![c] = r]
  BY NoCallInOrder DEF Ready, NotReady, Onward

\* Minting a secret takes a provision on with a secret that is not 0.
LEMMA MintInOrder ==
  ASSUME CallsInv, NEW c \in Caller, Mint(c), calls[c].kind = "postgres",
         calls[c].at \notin DeleteSteps
  PROVE  /\ minted' \in Nat
         /\ \E r \in CallRecord :
              InOrder(r) /\ Onward(r, calls[c]) /\ calls' = [calls EXCEPT ![c] = r]
<1> DEFINE r == [calls[c] EXCEPT !.secret = minted + 1, !.at = "create_role"]
<1>1. calls[c] \in CallRecord /\ InOrder(calls[c]) /\ minted + 1 \in Nat \ {0}
  BY DEF CallsInv
<1>2. r \in CallRecord
  BY <1>1, Zenon DEF CallRecord, CallStep, MintedSteps
<1>3. InOrder(r) /\ Onward(r, calls[c])
  BY <1>1 DEF InOrder, Onward, CallRecord, MintedSteps, DeleteSteps
<1>4. calls' = [calls EXCEPT ![c] = r] /\ minted' = minted + 1
  BY Zenon DEF Mint, CallsInv
<1>5. QED
  BY <1>1, <1>2, <1>3, <1>4, Zenon

\* Every step of a call, a fault included, ends it or takes it on in order.
LEMMA CallSteps ==
  ASSUME CallsInv, NEW c \in Caller, Postgres(c) \/ Storage(c) \/ Fault(c)
  PROVE  \E r \in CallRecord :
           InOrder(r) /\ Onward(r, calls[c]) /\ calls' = [calls EXCEPT ![c] = r]
<1> DEFINE Goal == \E r \in CallRecord :
                     InOrder(r) /\ Onward(r, calls[c]) /\ calls' = [calls EXCEPT ![c] = r]
<1> HIDE DEF Goal
<1> SUFFICES Goal
  BY Zenon DEF Goal
<1>s. ASSUME NEW at \in CallStep, Step(c, at),
             at \notin MintedSteps \/ calls[c].at \in MintedSteps,
             calls[c].kind = "postgres" => (at \in DeleteSteps <=> calls[c].at \in DeleteSteps),
             calls[c].kind = "storage" => (at \in BucketSteps <=> calls[c].at \in BucketSteps)
      PROVE  Goal
  BY <1>s, StepInOrder, Zenon DEF Goal
<1>e. Ready(c) \/ NotReady(c) => Goal
  BY EndInOrder DEF Goal
<1>m. Mint(c) /\ calls[c].kind = "postgres" /\ calls[c].at \notin DeleteSteps => Goal
  BY MintInOrder DEF Goal
<1> USE DEF At, CallStep, MintedSteps, DeleteSteps, BucketSteps
<1>1. CASE ProvisionRole(c) \/ ProvisionDatabase(c)
  BY <1>1, <1>s, <1>e, <1>m, Zenon DEF ProvisionRole, ProvisionDatabase
<1>2. CASE CreateRole(c) \/ CreateDatabase(c) \/ GrantConnect(c) \/ InsertCredential(c)
  BY <1>2, <1>s, <1>e, Zenon DEF CreateRole, CreateDatabase, GrantConnect, InsertCredential
<1>3. CASE readiness(c) \/ adopt(c)
  BY <1>3, <1>s, <1>e, Zenon DEF readiness, adopt
<1>4. CASE DeleteDatabase(c) \/ DropDatabase(c)
  BY <1>4, <1>s, <1>e, Zenon DEF DeleteDatabase, DropDatabase
<1>5. CASE DeleteRole(c) \/ DropRole(c) \/ ForgetCredential(c)
  BY <1>5, <1>s, <1>e, Zenon DEF DeleteRole, DropRole, ForgetCredential
<1>6. CASE ProvisionBucket(c) \/ CreateBucket(c) \/ SetPermissions(c) \/ MintKey(c)
  BY <1>6, <1>s, <1>e, Zenon DEF ProvisionBucket, CreateBucket, SetPermissions, MintKey
<1>7. CASE BucketReadiness(c) \/ RevokeKey(c) \/ RemoveBucket(c)
  BY <1>7, <1>s, <1>e, Zenon DEF BucketReadiness, RevokeKey, RemoveBucket
<1>8. CASE Fault(c)
  BY <1>8, <1>e DEF Fault
<1>9. QED
  BY <1>1, <1>2, <1>3, <1>4, <1>5, <1>6, <1>7, <1>8, Zenon DEF Postgres, Storage

\* A new call, and what it makes of those under way.
LEMMA CallBegins ==
  ASSUME CallsInv, NEW c \in Caller, NEW kind \in {"postgres", "storage"},
         NEW action \in {"provision", "readiness", "adopt", "delete"},
         Call(c, kind, action)
  PROVE  /\ calls' \in [Caller -> CallRecord]
         /\ \A d \in Caller : InOrder(calls'[d])
         /\ calls[c] = NoCall
         /\ calls'[c].kind = kind /\ calls'[c].action = action
         /\ calls'[c].alone <=> \A d \in Caller : calls[d].kind # kind
         /\ calls'[c].at \notin MintedSteps \cup {"chmod", "mint"}
         /\ \A d \in Caller \ {c} :
              /\ calls'[d].kind = calls[d].kind /\ calls'[d].action = calls[d].action
              /\ calls'[d].at = calls[d].at /\ calls'[d].secret = calls[d].secret
              /\ calls'[d].alone => calls[d].alone /\ calls[d].kind # kind
<1> DEFINE new == [NoCall EXCEPT !.at = FirstStep[kind][action], !.kind = kind,
                                 !.action = action, !.alone = Running(kind) = {}]
<1>0. calls \in [Caller -> CallRecord] /\ calls[c] = NoCall
  BY Zenon DEF CallsInv, Call
<1>1. /\ calls'[c] = new
      /\ \A d \in Caller \ {c} :
           calls'[d] = IF calls[d].kind = kind THEN [calls[d] EXCEPT !.alone = FALSE]
                       ELSE calls[d]
      /\ DOMAIN calls' = Caller /\ calls' = [d \in Caller |-> calls'[d]]
  BY Zenon DEF Call, Running
<1>2. /\ FirstStep[kind][action] \in CallStep \ (MintedSteps \cup {"chmod", "mint"})
      /\ kind = "postgres" => (action = "delete" <=> FirstStep[kind][action] \in DeleteSteps)
      /\ kind = "storage" => (action = "provision" <=> FirstStep[kind][action] \in BucketSteps)
  BY DEF FirstStep, CallStep, MintedSteps, DeleteSteps, BucketSteps
<1>3. /\ new \in CallRecord /\ new.kind = kind /\ new.action = action
      /\ new.at = FirstStep[kind][action]
      /\ new.alone <=> Running(kind) = {}
  BY <1>2, Zenon DEF NoCall, CallRecord
<1> HIDE DEF new
<1>4. InOrder(new)
  BY <1>2, <1>3, Zenon DEF InOrder
<1>5. \A d \in Caller \ {c} :
        /\ calls'[d] \in CallRecord
        /\ calls'[d].kind = calls[d].kind /\ calls'[d].action = calls[d].action
        /\ calls'[d].at = calls[d].at /\ calls'[d].secret = calls[d].secret
        /\ calls'[d].alone => calls[d].alone /\ calls[d].kind # kind
  <2>1. \A r \in CallRecord :
          LET s == [r EXCEPT !.alone = FALSE] IN
            /\ s \in CallRecord /\ s.kind = r.kind /\ s.action = r.action
            /\ s.at = r.at /\ s.secret = r.secret /\ ~s.alone
    BY Zenon DEF CallRecord
  <2>2. SUFFICES ASSUME NEW d \in Caller \ {c}
                 PROVE  /\ calls'[d] \in CallRecord
                        /\ calls'[d].kind = calls[d].kind /\ calls'[d].action = calls[d].action
                        /\ calls'[d].at = calls[d].at /\ calls'[d].secret = calls[d].secret
                        /\ calls'[d].alone => calls[d].alone /\ calls[d].kind # kind
    BY Zenon
  <2>3. calls[d] \in CallRecord
    BY <1>0
  <2>4. CASE calls[d].kind = kind
    <3>1. calls'[d] = [calls[d] EXCEPT !.alone = FALSE]
      BY <1>1, <2>4
    <3>2. QED
      BY <2>1, <2>3, <3>1
  <2>5. CASE calls[d].kind # kind
    BY <1>1, <2>3, <2>5
  <2>6. QED
    BY <2>4, <2>5, Zenon
<1>6. \A d \in Caller \ {c} : InOrder(calls'[d])
  BY <1>5 DEF CallsInv, InOrder
<1>7. new.alone <=> \A d \in Caller : calls[d].kind # kind
  BY <1>3, Zenon DEF Running
<1>8. calls' \in [Caller -> CallRecord]
  BY <1>1, <1>3, <1>5
<1>9. QED
  BY <1>0, <1>1, <1>2, <1>3, <1>4, <1>5, <1>6, <1>7, <1>8

\* What a step of a call may do to the server, the disk and the caches.
LEMMA CallEffects ==
  ASSUME CallsInv, NEW c \in Caller, Postgres(c) \/ Storage(c) \/ Fault(c)
  PROVE  /\ role' \in Nat /\ credential' \in Nat /\ minted' \in Nat /\ faults' \in Nat
         /\ database' \in BOOLEAN /\ bucket' \in BOOLEAN /\ torn' \in BOOLEAN
         /\ scoped_key' \in [id : Nat, live : BOOLEAN]
<1>t. /\ role \in Nat /\ credential \in Nat /\ minted \in Nat /\ faults \in Nat
      /\ database \in BOOLEAN /\ bucket \in BOOLEAN /\ torn \in BOOLEAN
      /\ scoped_key \in [id : Nat, live : BOOLEAN]
      /\ calls[c].secret \in Nat
  BY DEF CallsInv, CallRecord
<1>k. NoKey \in [id : Nat, live : BOOLEAN]
  BY DEF NoKey
<1>1. CASE ProvisionRole(c) \/ ProvisionDatabase(c)
  BY <1>t, <1>1 DEF ProvisionRole, ProvisionDatabase, Mint, Ready, server, storage
<1>2. CASE CreateRole(c) \/ CreateDatabase(c) \/ GrantConnect(c) \/ InsertCredential(c)
  BY <1>t, <1>2, Zenon DEF CreateRole, CreateDatabase, GrantConnect, InsertCredential, Ready, NotReady,
                    server, storage
<1>3. CASE readiness(c) \/ adopt(c)
  BY <1>t, <1>3, Zenon DEF readiness, adopt, Ready, NotReady, server, storage
<1>4. CASE DeleteDatabase(c) \/ DropDatabase(c)
  BY <1>t, <1>4, Zenon DEF DeleteDatabase, DropDatabase, NotReady, server, storage
<1>5. CASE DeleteRole(c) \/ DropRole(c) \/ ForgetCredential(c)
  <2>1. CASE DeleteRole(c)
    BY <1>t, <2>1, Zenon DEF DeleteRole, Forget, Ready, server, storage
  <2>2. CASE DropRole(c)
    <3>1. role' \in {role, 0} /\ UNCHANGED <<database, credential, storage, minted, faults>>
      BY <2>2 DEF DropRole
    <3>2. torn' \in BOOLEAN
      BY <1>t, <2>2, Zenon DEF DropRole, NotReady
    <3>3. QED
      BY <1>t, <3>1, <3>2 DEF storage
  <2>3. CASE ForgetCredential(c)
    BY <1>t, <2>3 DEF ForgetCredential, Forget, Ready, server, storage
  <2>4. QED
    BY <1>5, <2>1, <2>2, <2>3, Zenon
<1>6. CASE ProvisionBucket(c) \/ CreateBucket(c) \/ SetPermissions(c)
  BY <1>t, <1>6, Zenon DEF ProvisionBucket, CreateBucket, SetPermissions, Ready, NotReady, server, storage
<1>7. CASE MintKey(c)
  BY <1>t, <1>7 DEF MintKey, Ready, server
<1>8. CASE BucketReadiness(c) \/ RevokeKey(c) \/ RemoveBucket(c)
  BY <1>t, <1>k, <1>8, Zenon DEF BucketReadiness, RevokeKey, RemoveBucket, Ready, NotReady, server,
                          storage
<1>9. CASE Fault(c)
  <2>1. role' \in {role, calls[c].secret, 0}
    BY <1>9 DEF Fault
  <2>2. database' \in BOOLEAN /\ bucket' \in BOOLEAN
    BY <1>t, <1>9, Zenon DEF Fault
  <2>3. QED
    BY <1>t, <1>9, <2>1, <2>2 DEF Fault, NotReady
<1>10. QED
  BY <1>1, <1>2, <1>3, <1>4, <1>5, <1>6, <1>7, <1>8, <1>9, Zenon DEF Postgres, Storage

\* Every step of the adapters preserves types and the order of calls.
LEMMA CallsStep == CallsInv /\ [ProvisioningNext]_provisioning => CallsInv'
<1> SUFFICES ASSUME CallsInv, [ProvisioningNext]_provisioning PROVE CallsInv'
  OBVIOUS
<1>1. ASSUME NEW c \in Caller, NEW kind \in {"postgres", "storage"}, BeginCall(c, kind)
      PROVE  CallsInv'
  <2>1. PICK action \in {"provision", "readiness", "adopt", "delete"} : Call(c, kind, action)
    BY <1>1 DEF BeginCall
  <2>2. /\ calls' \in [Caller -> CallRecord]
        /\ \A d \in Caller : InOrder(calls'[d])
    BY <2>1, CallBegins, Zenon
  <2>3. torn' \in BOOLEAN /\ UNCHANGED <<server, credential, storage, minted, faults>>
    BY <2>1, Zenon DEF Call
  <2>4. QED
    BY <2>2, <2>3, Zenon DEF CallsInv, server, storage
<1>2. ASSUME NEW c \in Caller, Postgres(c) \/ Storage(c) \/ Fault(c) PROVE CallsInv'
  <2>1. PICK r \in CallRecord : InOrder(r) /\ calls' = [calls EXCEPT ![c] = r]
    BY <1>2, CallSteps
  <2>2. calls' \in [Caller -> CallRecord] /\ \A d \in Caller : InOrder(calls'[d])
    BY <2>1 DEF CallsInv
  <2>3. QED
    BY <1>2, <2>2, CallEffects, Zenon DEF CallsInv
<1>3. CASE Restart
  <2>1. NoKey \in [id : Nat, live : BOOLEAN] /\ faults + 1 \in Nat
    BY DEF NoKey, CallsInv
  <2>2. calls' \in [Caller -> CallRecord] /\ \A d \in Caller : InOrder(calls'[d])
    BY <1>3, NoCallInOrder DEF Restart
  <2>3. QED
    BY <1>3, <2>1, <2>2, Zenon DEF Restart, CallsInv, server
<1>4. CASE KeyExpires
  BY <1>4, Zenon DEF KeyExpires, CallsInv, server
<1>5. CASE UNCHANGED provisioning
  BY <1>5, Zenon DEF provisioning, server, storage, CallsInv
<1>6. QED
  BY <1>1, <1>2, <1>3, <1>4, <1>5 DEF ProvisioningNext, PostgresNext, StorageNext

\* A call that begins ends the solitude of those under way.
LEMMA AloneStep == CallsInv /\ AloneInv /\ [ProvisioningNext]_provisioning => AloneInv'
<1> SUFFICES ASSUME CallsInv, AloneInv, [ProvisioningNext]_provisioning PROVE AloneInv'
  OBVIOUS
<1>1. ASSUME NEW c \in Caller, NEW kind \in {"postgres", "storage"}, BeginCall(c, kind)
      PROVE  AloneInv'
  <2>1. PICK action \in {"provision", "readiness", "adopt", "delete"} : Call(c, kind, action)
    BY <1>1 DEF BeginCall
  <2>2. QED
    BY <2>1, CallBegins DEF AloneInv
<1>2. ASSUME NEW c \in Caller, Postgres(c) \/ Storage(c) \/ Fault(c) PROVE AloneInv'
  <2>1. PICK r \in CallRecord : Onward(r, calls[c]) /\ calls' = [calls EXCEPT ![c] = r]
    BY <1>2, CallSteps
  <2>2. \A d \in Caller :
          calls'[d].kind = "storage" =>
            calls[d].kind = "storage" /\ (calls'[d].alone => calls[d].alone)
    BY <2>1, NoCallInOrder, Zenon DEF CallsInv, Onward
  <2>3. QED
    BY <2>2, Zenon DEF AloneInv
<1>3. CASE Restart
  BY <1>3, NoCallInOrder, Zenon DEF Restart, AloneInv
<1>4. CASE UNCHANGED calls
  BY <1>4, Zenon DEF AloneInv
<1>5. QED
  BY <1>1, <1>2, <1>3, <1>4 DEF ProvisioningNext, PostgresNext, StorageNext, KeyExpires, provisioning

\* The bucket of an undisturbed provision is removed by no one.
LEMMA BucketStep ==
  CallsInv /\ AloneInv /\ BucketInv /\ [ProvisioningNext]_provisioning => BucketInv'
<1> SUFFICES ASSUME CallsInv, AloneInv, BucketInv, [ProvisioningNext]_provisioning
             PROVE  BucketInv'
  OBVIOUS
<1>1. ASSUME NEW c \in Caller, NEW kind \in {"postgres", "storage"}, BeginCall(c, kind)
      PROVE  BucketInv'
  <2>1. PICK action \in {"provision", "readiness", "adopt", "delete"} : Call(c, kind, action)
    BY <1>1 DEF BeginCall
  <2>2. UNCHANGED bucket
    BY <2>1, Zenon DEF Call, storage
  <2>3. QED
    BY <2>1, <2>2, CallBegins DEF BucketInv
<1>2. ASSUME NEW c \in Caller, Postgres(c) \/ Storage(c) \/ Fault(c) PROVE BucketInv'
  <2>1. PICK r \in CallRecord : Onward(r, calls[c]) /\ calls' = [calls EXCEPT ![c] = r]
    BY <1>2, CallSteps
  <2>2. bucket /\ ~bucket' => calls[c].kind = "storage" /\ (r = NoCall)
    <3>1. CASE RemoveBucket(c)
      BY <2>1, <3>1, Zenon DEF RemoveBucket, Ready, At, NotReady, CallsInv
    <3>2. CASE Fault(c)
      BY <2>1, <3>2, Zenon DEF Fault, NotReady, At, CallsInv
    <3>3. CASE ~RemoveBucket(c) /\ ~Fault(c)
      BY <1>2, <3>3, Zenon
         DEF Postgres, ProvisionRole, ProvisionDatabase, CreateRole, CreateDatabase, GrantConnect,
             InsertCredential, readiness, adopt, DeleteDatabase, DropDatabase, DeleteRole,
             DropRole, ForgetCredential, Storage, ProvisionBucket, CreateBucket,
             SetPermissions, MintKey, BucketReadiness, RevokeKey, storage
    <3>4. QED
      BY <3>1, <3>2, <3>3, Zenon
  <2>3. calls'[c].kind = "storage" /\ calls'[c].at \in {"chmod", "mint"} => bucket'
    <3>1. CASE CreateBucket(c) \/ SetPermissions(c)
      BY <3>1, NoCallInOrder, Zenon DEF CreateBucket, SetPermissions, NotReady, CallsInv, storage
    <3>2. CASE Fault(c)
      BY <3>2, NoCallInOrder DEF Fault, NotReady, CallsInv
    <3>3. CASE Postgres(c)
      <4>1. calls'[c] = r
        BY <2>1 DEF CallsInv
      <4>2. CASE readiness(c)
        BY <4>1, <4>2, <2>1, NoCallInOrder, Zenon
           DEF readiness, At, Ready, NotReady, Onward, CallsInv
      <4>3. CASE ~readiness(c)
        <5>1. calls[c].kind = "postgres"
          BY <3>3, <4>3, Zenon
             DEF At, Postgres, ProvisionRole, ProvisionDatabase, CreateRole, CreateDatabase,
                 GrantConnect, InsertCredential, adopt, DeleteDatabase, DropDatabase,
                 DeleteRole, DropRole, ForgetCredential
        <5>2. QED
          BY <2>1, <4>1, <5>1, NoCallInOrder, Zenon DEF Onward
      <4>4. QED
        BY <4>2, <4>3, Zenon
    <3>4. CASE \/ ProvisionBucket(c) \/ MintKey(c) \/ BucketReadiness(c) \/ RevokeKey(c)
               \/ RemoveBucket(c)
      BY <3>4, NoCallInOrder
         DEF ProvisionBucket, MintKey, BucketReadiness, RevokeKey, RemoveBucket, Ready, NotReady,
             Step, CallsInv, CallRecord
    <3>5. QED
      BY <1>2, <3>1, <3>2, <3>3, <3>4, Zenon DEF Storage
  <2>4. \A d \in Caller \ {c} : calls'[d] = calls[d]
    BY <2>1 DEF CallsInv
  <2>5. SUFFICES ASSUME NEW d \in Caller, calls'[d].kind = "storage", calls'[d].alone,
                        calls'[d].at \in {"chmod", "mint"}
                 PROVE  bucket'
    BY Zenon DEF BucketInv
  <2>6. CASE d = c
    BY <2>3, <2>5, <2>6, Zenon
  <2>7. CASE d # c
    BY <1>2, <2>2, <2>4, <2>5, <2>7, CallEffects, Zenon DEF AloneInv, BucketInv, CallsInv
  <2>8. QED
    BY <2>6, <2>7
<1>3. CASE Restart
  BY <1>3, NoCallInOrder, Zenon DEF Restart, BucketInv
<1>4. CASE UNCHANGED <<calls, bucket>>
  BY <1>4, Zenon DEF BucketInv
<1>5. QED
  BY <1>1, <1>2, <1>3, <1>4
     DEF ProvisioningNext, PostgresNext, StorageNext, KeyExpires, provisioning, storage

Owned == MintedSteps \ {"create_role"}

\* What a step of a call may do to the role and to its password in memory.
Effects(c) ==
  /\ torn => torn'
  /\ role' # role =>
       \/ /\ calls[c].kind = "postgres" /\ calls[c].at = "create_role"
          /\ role = 0 /\ role' = calls[c].secret
       \/ Deletes(c) /\ (torn' \/ Deletes(c)')
  /\ credential' # credential =>
       \/ credential' = 0
       \/ /\ calls[c].kind = "postgres" /\ calls[c].at = "insert"
          /\ credential' = calls[c].secret /\ role' = role
  /\ Deletes(c) => Deletes(c)' \/ torn' \/ credential' = 0
  /\ calls'[c].kind = "postgres" /\ calls'[c].at \in Owned =>
       /\ calls[c].kind = "postgres" /\ calls'[c].secret = calls[c].secret
       /\ \/ calls[c].at \in Owned /\ role' = role
          \/ calls[c].at = "create_role" /\ role' = calls[c].secret

\* Every statement of a call, and every fault of one, has only the effects
\* that Effects allows it.
LEMMA EffectsHold ==
  ASSUME CallsInv, NEW c \in Caller, Postgres(c) \/ Storage(c) \/ Fault(c)
  PROVE  Effects(c)
<1>t. /\ calls \in [Caller -> CallRecord] /\ calls[c] \in CallRecord /\ InOrder(calls[c])
      /\ torn \in BOOLEAN
  BY Zenon DEF CallsInv
<1>r. ASSUME Ready(c)
      PROVE  /\ calls'[c].kind = "none" /\ torn' = torn
  BY <1>t, <1>r, NoCallInOrder DEF Ready
<1>n. ASSUME NotReady(c)
      PROVE  /\ calls'[c].kind = "none" /\ (torn => torn')
             /\ calls[c].action = "delete" => torn'
  BY <1>t, <1>n, NoCallInOrder, Zenon DEF NotReady
<1>s. ASSUME NEW at, Step(c, at)
      PROVE  /\ calls'[c].kind = calls[c].kind /\ calls'[c].action = calls[c].action
             /\ calls'[c].secret = calls[c].secret /\ calls'[c].at = at
  BY <1>t, <1>s DEF Step, CallRecord
<1>m. ASSUME Mint(c)
      PROVE  /\ calls'[c].kind = calls[c].kind /\ calls'[c].action = calls[c].action
             /\ calls'[c].at = "create_role"
  BY <1>t, <1>m DEF Mint, CallRecord
<1>d. Deletes(c) => calls[c].at \in DeleteSteps
  BY <1>t, Zenon DEF Deletes, InOrder
\* A step that leaves the role and its password alone, and has no delete to end
\* and no secret to take on.
<1>q. ASSUME UNCHANGED <<role, credential>>, torn => torn',
             Deletes(c) => Deletes(c)' \/ torn',
             calls'[c].kind = "postgres" => calls'[c].at \notin Owned
      PROVE  Effects(c)
  BY <1>q, Zenon DEF Effects
<1>1. CASE ProvisionRole(c) \/ ProvisionDatabase(c)
  <2>1. /\ calls[c].at \in {"role", "database"} /\ UNCHANGED <<role, credential>>
        /\ \/ (Step(c, "database") \/ Mint(c)) /\ UNCHANGED torn
           \/ Ready(c)
    BY <1>1, Zenon DEF ProvisionRole, ProvisionDatabase, At, server
  <2>2. ~Deletes(c)
    BY <2>1, <1>d, Zenon DEF DeleteSteps
  <2>3. /\ torn => torn'
        /\ calls'[c].kind = "none" \/ calls'[c].at \in {"database", "create_role"}
    BY <2>1, <1>r, <1>s, <1>m
  <2>4. QED
    BY <2>1, <2>2, <2>3, <1>q, Zenon DEF Owned, MintedSteps
<1>2. CASE CreateRole(c)
  <2>1. ~Deletes(c)
    BY <1>2, <1>d, Zenon DEF CreateRole, At, DeleteSteps
  <2>2. CASE role = 0
    <3>1. /\ calls[c].kind = "postgres" /\ calls[c].at = "create_role"
          /\ role' = calls[c].secret /\ UNCHANGED <<credential, torn>>
          /\ calls'[c].secret = calls[c].secret
      BY <1>2, <2>2, <1>s, Zenon DEF CreateRole, At
    <3>2. QED
      BY <2>1, <2>2, <3>1, Zenon DEF Effects
  <2>3. CASE role # 0
    <3>1. NotReady(c) /\ UNCHANGED <<role, credential>>
      BY <1>2, <2>3, Zenon DEF CreateRole
    <3>2. QED
      BY <2>1, <3>1, <1>n, <1>q, Zenon
  <2>4. QED
    BY <2>2, <2>3
<1>3. CASE CreateDatabase(c) \/ GrantConnect(c)
  <2>1. /\ calls[c].kind = "postgres" /\ calls[c].at \in {"create_database", "grant"}
        /\ UNCHANGED <<role, credential>>
        /\ \/ (\E at : Step(c, at)) /\ UNCHANGED torn
           \/ NotReady(c)
    BY <1>3, Zenon DEF CreateDatabase, GrantConnect, At, server
  <2>2. ~Deletes(c) /\ calls[c].at \in Owned
    BY <2>1, <1>d, Zenon DEF DeleteSteps, Owned, MintedSteps
  <2>3. CASE NotReady(c)
    BY <2>1, <2>2, <2>3, <1>n, <1>q, Zenon
  <2>4. CASE (\E at : Step(c, at)) /\ UNCHANGED torn
    BY <2>1, <2>2, <2>4, <1>s, Zenon DEF Effects
  <2>5. QED
    BY <2>1, <2>3, <2>4, Zenon
<1>4. CASE InsertCredential(c)
  <2>1. /\ calls[c].kind = "postgres" /\ calls[c].at = "insert" /\ Ready(c)
        /\ credential' = calls[c].secret /\ UNCHANGED role
    BY <1>4, Zenon DEF InsertCredential, At, server
  <2>2. ~Deletes(c)
    BY <2>1, <1>d, Zenon DEF DeleteSteps
  <2>3. QED
    BY <2>1, <2>2, <1>r DEF Effects
<1>5. CASE readiness(c) \/ adopt(c)
  <2>1. /\ calls[c].at \in {"has_role", "has_db", "has_no_role", "adopt_db", "adopt_role"}
        /\ UNCHANGED <<role, credential>>
        /\ \/ \E at \in {"has_db", "has_no_role", "adopt_role"} : Step(c, at) /\ UNCHANGED torn
           \/ Ready(c) \/ NotReady(c)
    BY <1>5, Zenon DEF readiness, adopt, At, server
  <2>2. ~Deletes(c)
    BY <2>1, <1>d, Zenon DEF DeleteSteps
  <2>3. /\ torn => torn'
        /\ \/ calls'[c].kind = "none"
           \/ calls'[c].at \in {"has_db", "has_no_role", "adopt_role"}
    BY <2>1, <1>n, <1>r, <1>s
  <2>4. QED
    BY <2>1, <2>2, <2>3, <1>q, Zenon DEF Owned, MintedSteps
<1>6. CASE DeleteDatabase(c) \/ DropDatabase(c)
  <2>1. /\ calls[c].kind = "postgres" /\ UNCHANGED <<role, credential>>
        /\ \/ \E at \in {"drop_database", "delete_role"} : Step(c, at) /\ UNCHANGED torn
           \/ NotReady(c)
    BY <1>6, Zenon DEF DeleteDatabase, DropDatabase, At, server
  <2>2. CASE NotReady(c)
    BY <2>1, <2>2, <1>n, <1>q, Zenon DEF Deletes
  <2>3. CASE \E at \in {"drop_database", "delete_role"} : Step(c, at) /\ UNCHANGED torn
    <3>1. /\ Deletes(c) => Deletes(c)'
          /\ calls'[c].at \in {"drop_database", "delete_role"}
      BY <2>3, <1>s, Zenon DEF Deletes
    <3>2. QED
      BY <2>1, <2>3, <3>1, <1>q DEF Owned, MintedSteps
  <2>4. QED
    BY <2>1, <2>2, <2>3, Zenon
<1>7. CASE DeleteRole(c)
  <2>1. UNCHANGED <<role, torn>>
    BY <1>7, Zenon DEF DeleteRole, Ready, server
  <2>2. CASE role # 0
    <3>1. UNCHANGED credential /\ Step(c, "drop_role")
      BY <1>7, <2>2 DEF DeleteRole
    <3>2. (Deletes(c) => Deletes(c)') /\ calls'[c].at \notin Owned
      BY <3>1, <1>s DEF Deletes, Owned, MintedSteps
    <3>3. QED
      BY <2>1, <3>1, <3>2, <1>q, Zenon
  <2>3. CASE role = 0
    <3>1. credential' = 0 /\ Ready(c)
      BY <1>7, <2>3 DEF DeleteRole, Forget
    <3>2. QED
      BY <2>1, <3>1, <1>r, Zenon DEF Effects
  <2>4. QED
    BY <2>2, <2>3
<1>8. CASE DropRole(c)
  <2>1. Deletes(c)
    BY <1>8, <1>t, Zenon DEF DropRole, InOrder, At, DeleteSteps, Deletes
  <2>2. UNCHANGED credential
    BY <1>8 DEF DropRole
  <2>3. CASE role # 0 /\ ~database
    <3>1. Step(c, "forget") /\ UNCHANGED torn
      BY <1>8, <2>3, Zenon DEF DropRole
    <3>2. Deletes(c)' /\ calls'[c].at \notin Owned
      BY <2>1, <3>1, <1>s DEF Deletes, Owned, MintedSteps
    <3>3. QED
      BY <2>1, <2>2, <3>1, <3>2, Zenon DEF Effects
  <2>4. CASE ~(role # 0 /\ ~database)
    <3>1. NotReady(c) /\ UNCHANGED role
      BY <1>8, <2>4, Zenon DEF DropRole
    <3>2. QED
      BY <2>1, <2>2, <3>1, <1>n, <1>q, Zenon DEF Deletes
  <2>5. QED
    BY <2>3, <2>4
<1>9. CASE ForgetCredential(c)
  <2>1. credential' = 0 /\ Ready(c) /\ UNCHANGED role
    BY <1>9 DEF ForgetCredential, Forget, server
  <2>2. QED
    BY <2>1, <1>r DEF Effects
<1>10. CASE Storage(c)
  <2>1. /\ calls[c].kind = "storage" /\ UNCHANGED <<server, credential>>
        /\ \/ Ready(c) \/ NotReady(c)
           \/ UNCHANGED torn /\ \E at : Step(c, at)
    BY <1>10, Zenon DEF Storage, ProvisionBucket, CreateBucket, SetPermissions, MintKey, BucketReadiness,
                 RevokeKey, RemoveBucket, At
  <2>2. calls'[c].kind # "postgres" /\ (torn => torn')
    BY <2>1, <1>n, <1>r, <1>s
  <2>3. ~Deletes(c)
    BY <2>1, Zenon DEF Deletes
  <2>4. QED
    BY <2>1, <2>2, <2>3, <1>q, Zenon DEF server
<1>11. CASE Fault(c)
  <2> DEFINE made == At(c, "postgres", "create_role") /\ role = 0
             dropped == At(c, "postgres", "drop_role") /\ ~database
             effect == CASE made -> {calls[c].secret} [] dropped -> {0} [] OTHER -> {}
  <2>1. UNCHANGED credential /\ NotReady(c) /\ role' \in {role} \cup effect
    BY <1>11 DEF Fault
  <2>2. ~(made /\ dropped)
    BY Zenon DEF At
  <2>3. dropped => Deletes(c)
    BY <1>t, Zenon DEF InOrder, At, DeleteSteps, Deletes
  <2> HIDE DEF made, dropped
  <2>4. role' # role => (made /\ role' = calls[c].secret) \/ dropped
    BY <2>1, <2>2
  <2>5. CASE role' = role
    BY <2>1, <2>5, <1>n, <1>q DEF Deletes
  <2>6. CASE role' # role /\ dropped
    BY <2>1, <2>3, <2>6, <1>n DEF Effects, Deletes
  <2>7. CASE role' # role /\ made /\ role' = calls[c].secret
    BY <2>1, <2>7, <1>n DEF Effects, Deletes, made, At
  <2>8. QED
    BY <2>4, <2>5, <2>6, <2>7
<1>12. QED
  BY <1>1, <1>2, <1>3, <1>4, <1>5, <1>6, <1>7, <1>8, <1>9, <1>10, <1>11, Zenon DEF Postgres

\* The cache is in order after a step of a call.
LEMMA CallKeepsCache ==
  ASSUME CallsInv, CacheInv, NEW c \in Caller, Postgres(c) \/ Storage(c) \/ Fault(c)
  PROVE  CacheInv'
<1>1. PICK r \in CallRecord : Onward(r, calls[c]) /\ calls' = [calls EXCEPT ![c] = r]
  BY CallSteps
<1>2. /\ \A d \in Caller \ {c} : calls'[d] = calls[d]
      /\ \A d \in Caller : calls'[d].kind = "postgres" => calls[d].kind = "postgres"
      /\ \A d \in Caller : Deletes(d)' => Deletes(d)
  BY <1>1, NoCallInOrder, Zenon DEF CallsInv, Onward, Deletes
<1>3. Effects(c)
  BY EffectsHold
<1>4. SUFFICES ASSUME ~torn'
               PROVE  /\ \A a, b \in Caller : a # b /\ Deletes(a)' => calls'[b].kind # "postgres"
                      /\ \A d \in Caller :
                           calls'[d].kind = "postgres" /\ calls'[d].at \in Owned =>
                             role' = calls'[d].secret
                      /\ credential' # 0 /\ (\A d \in Caller : ~Deletes(d)') => role' = credential'
  BY Zenon DEF CacheInv, Owned, Deletes
<1>5. /\ \A a, b \in Caller : a # b /\ Deletes(a) => calls[b].kind # "postgres"
      /\ \A d \in Caller :
           calls[d].kind = "postgres" /\ calls[d].at \in Owned => role = calls[d].secret
      /\ credential # 0 /\ (\A d \in Caller : ~Deletes(d)) => role = credential
  BY <1>3, <1>4, Zenon DEF Effects, CacheInv, Owned
<1>6. \A a, b \in Caller : a # b /\ Deletes(a)' => calls'[b].kind # "postgres"
  BY <1>2, <1>5, Zenon
<1>7. ASSUME NEW d \in Caller, calls'[d].kind = "postgres", calls'[d].at \in Owned
      PROVE  role' = calls'[d].secret
  <2>1. CASE d = c
    BY <1>3, <1>5, <1>7, <2>1, Zenon DEF Effects
  <2>2. CASE d # c
    <3>1. /\ calls'[d] = calls[d] /\ role = calls[d].secret
          /\ calls[d].secret # 0 /\ ~Deletes(c)
      BY <1>2, <1>5, <1>7, <2>2, Zenon DEF CallsInv, InOrder, Owned
    <3>2. QED
      BY <1>3, <3>1, Zenon DEF Effects
  <2>3. QED
    BY <2>1, <2>2
<1>8. ASSUME credential' # 0, \A d \in Caller : ~Deletes(d)'
      PROVE  role' = credential'
  <2>1. ~Deletes(c)
    BY <1>3, <1>4, <1>8, Zenon DEF Effects
  <2>2. \A d \in Caller : ~Deletes(d)
    BY <1>2, <1>8, <2>1, Zenon DEF Deletes
  <2>3. CASE credential' = credential
    BY <1>3, <1>5, <1>8, <2>1, <2>2, <2>3, Zenon DEF Effects
  <2>4. CASE credential' # credential
    BY <1>3, <1>5, <1>8, <2>4, Zenon DEF Effects, Owned, MintedSteps
  <2>5. QED
    BY <2>3, <2>4
<1>9. QED
  BY <1>6, <1>7, <1>8, Zenon

\* Every step of the adapters preserves what the cache says of the role.
LEMMA CacheStep == CallsInv /\ CacheInv /\ [ProvisioningNext]_provisioning => CacheInv'
<1> SUFFICES ASSUME CallsInv, CacheInv, [ProvisioningNext]_provisioning PROVE CacheInv'
  OBVIOUS
<1>1. ASSUME NEW c \in Caller, NEW kind \in {"postgres", "storage"}, BeginCall(c, kind)
      PROVE  CacheInv'
  <2>1. PICK action \in {"provision", "readiness", "adopt", "delete"} : Call(c, kind, action)
    BY <1>1 DEF BeginCall
  <2>2. /\ UNCHANGED <<role, credential>>
        /\ torn' = (torn \/ (/\ Running(kind) # {}
                             /\ action = "delete"
                                  \/ \E d \in Running(kind) : calls[d].action = "delete"))
    BY <2>1, Zenon DEF Call, server
  <2>3. /\ calls[c] = NoCall
        /\ calls'[c].kind = kind /\ calls'[c].action = action
        /\ calls'[c].at \notin MintedSteps
        /\ \A d \in Caller \ {c} :
             /\ calls'[d].kind = calls[d].kind /\ calls'[d].action = calls[d].action
             /\ calls'[d].at = calls[d].at /\ calls'[d].secret = calls[d].secret
    BY <2>1, CallBegins
  <2>4. SUFFICES ASSUME ~torn' PROVE CacheInv'
    BY Zenon DEF CacheInv
  <2>5. /\ ~torn
        /\ \/ \A d \in Caller : calls[d].kind # kind
           \/ action # "delete" /\ \A d \in Caller : calls[d].kind = kind => calls[d].action # "delete"
    BY <2>2, <2>4, Zenon DEF Running
  <2>6. \A a, b \in Caller : a # b /\ Deletes(a)' => calls'[b].kind # "postgres"
    BY <2>3, <2>5 DEF CacheInv, Deletes
  <2>7. \A d \in Caller :
          calls'[d].kind = "postgres" /\ calls'[d].at \in MintedSteps \ {"create_role"} =>
            role' = calls'[d].secret
    BY <2>2, <2>3, <2>5, Zenon DEF CacheInv
  <2>8. \A d \in Caller : Deletes(d) => Deletes(d)'
    BY <2>3, NoCallInOrder, Zenon DEF Deletes
  <2>9. credential' # 0 /\ (\A d \in Caller : ~Deletes(d)') => role' = credential'
    BY <2>2, <2>5, <2>8, Zenon DEF CacheInv
  <2>10. QED
    BY <2>6, <2>7, <2>9, Zenon DEF CacheInv, Deletes
<1>2. CASE Restart
  BY <1>2, NoCallInOrder, Zenon DEF Restart, CacheInv, Deletes
<1>3. CASE UNCHANGED <<role, credential, calls, torn>>
  BY <1>3, Zenon DEF CacheInv, Deletes
<1>4. QED
  BY <1>1, <1>2, <1>3, CallKeepsCache
     DEF ProvisioningNext, PostgresNext, StorageNext, KeyExpires, provisioning, server

ProvisionInv == CallsInv /\ AloneInv /\ BucketInv /\ CacheInv

\* The invariant of the adapters.
THEOREM ProvisionInvariant ==
  ProvisioningInit /\ [][ProvisioningNext]_provisioning => []ProvisionInv
<1>1. ProvisioningInit => ProvisionInv
  <2> SUFFICES ASSUME ProvisioningInit PROVE ProvisionInv
    OBVIOUS
  <2>1. NoKey \in [id : Nat, live : BOOLEAN]
    BY DEF NoKey
  <2>2. \A c \in Caller : calls[c] = NoCall
    BY DEF ProvisioningInit
  <2>3. CallsInv
    BY <2>1, NoCallInOrder, Zenon DEF ProvisioningInit, CallsInv
  <2>4. AloneInv /\ BucketInv
    BY <2>2, NoCallInOrder, Zenon DEF AloneInv, BucketInv
  <2>5. CacheInv
    BY <2>2, NoCallInOrder, Zenon DEF ProvisioningInit, CacheInv, Deletes
  <2>6. QED
    BY <2>3, <2>4, <2>5 DEF ProvisionInv
<1>2. ProvisionInv /\ [ProvisioningNext]_provisioning => ProvisionInv'
  BY CallsStep, AloneStep, BucketStep, CacheStep DEF ProvisionInv
<1>3. QED
  BY <1>1, <1>2, PTL

\* However provisions, deletes, faults and restarts interleave, a credential in
\* memory opens the database, unless a delete failed or had company.
THEOREM CredentialsOpen ==
  ProvisioningInit /\ [][ProvisioningNext]_provisioning => []CachedCredentialOpens
<1>1. ProvisionInv => CachedCredentialOpens
  BY Zenon DEF ProvisionInv, CacheInv, Deletes, CachedCredentialOpens
<1>2. QED
  BY <1>1, ProvisionInvariant, PTL

\* A provision of a bucket that nothing disturbs ends with the bucket and a live
\* key, whatever went before.
THEOREM BucketsComeBack ==
  ProvisioningInit /\ [][ProvisioningNext]_provisioning => BucketComesBack
<1>1. ASSUME ProvisionInv, [ProvisioningNext]_provisioning, NEW c \in Caller,
             Returns(c, "storage", "provision")
      PROVE  bucket' /\ scoped_key'.live
  <2>1. /\ calls[c].kind = "storage" /\ calls[c].action = "provision" /\ calls[c].alone
        /\ calls'[c] = NoCall /\ faults' = faults /\ faults \in Nat /\ calls[c] # NoCall
        /\ calls[c].at \in BucketSteps
    BY <1>1, NoCallInOrder, Zenon DEF Returns, ProvisionInv, CallsInv, InOrder
  <2>2. ~Restart /\ ~Fault(c) /\ ~UNCHANGED calls
    <3>1. faults' # faults + 1
      BY <2>1
    <3>2. QED
      BY <2>1, <3>1, Zenon DEF Restart, Fault
  <2>3. ASSUME NEW d \in Caller, NEW kind \in {"postgres", "storage"}, BeginCall(d, kind)
        PROVE  FALSE
    <3>1. PICK action \in {"provision", "readiness", "adopt", "delete"} : Call(d, kind, action)
      BY <2>3 DEF BeginCall
    <3>2. calls[d] = NoCall /\ \A e \in Caller \ {d} : calls'[e].kind = calls[e].kind
      BY <1>1, <3>1, CallBegins DEF ProvisionInv
    <3>3. QED
      BY <2>1, <3>2, NoCallInOrder, Zenon
  <2>4. ASSUME NEW d \in Caller \ {c}, Postgres(d) \/ Storage(d) \/ Fault(d) PROVE FALSE
    BY <1>1, <2>1, <2>4, CallSteps, Zenon DEF ProvisionInv, CallsInv
  <2>5. Storage(c) \/ Postgres(c)
    BY <1>1, <2>2, <2>3, <2>4
       DEF ProvisioningNext, PostgresNext, StorageNext, KeyExpires, provisioning
  <2>6. ~Postgres(c)
    BY <2>1, Zenon DEF BucketSteps, At, Postgres, ProvisionRole, ProvisionDatabase, CreateRole,
                CreateDatabase, GrantConnect, InsertCredential, readiness, adopt,
                DeleteDatabase, DropDatabase, DeleteRole, DropRole, ForgetCredential
  <2>7. ASSUME NEW at \in CallStep \ {"none"} PROVE ~Step(c, at)
    BY <1>1, <2>1, NoCallInOrder DEF Step, ProvisionInv, CallsInv, CallRecord
  <2>8. CASE ProvisionBucket(c)
    BY <2>7, <2>8, Zenon DEF ProvisionBucket, IsLive, storage, CallStep, BucketSteps
  <2>9. CASE SetPermissions(c) \/ CreateBucket(c)
    BY <1>1, <2>1, <2>7, <2>9, Zenon
       DEF SetPermissions, CreateBucket, At, ProvisionInv, BucketInv, CallStep, BucketSteps
  <2>10. CASE MintKey(c)
    BY <1>1, <2>1, <2>10, Zenon DEF MintKey, At, ProvisionInv, BucketInv
  <2>11. CASE BucketReadiness(c) \/ RevokeKey(c) \/ RemoveBucket(c)
    BY <2>1, <2>11, Zenon DEF BucketReadiness, RevokeKey, RemoveBucket, At, BucketSteps
  <2>12. QED
    BY <2>5, <2>6, <2>8, <2>9, <2>10, <2>11, Zenon DEF Storage
<1>2. ProvisionInv /\ [ProvisioningNext]_provisioning =>
        [\A c \in Caller :
           Returns(c, "storage", "provision") => bucket' /\ scoped_key'.live]_provisioning
  BY <1>1
<1>3. QED
  BY <1>2, ProvisionInvariant, PTL DEF BucketComesBack

-----------------------------------------------------------------------------
(* Hostnames.  A row is a copy of a delivery, and a delivery keeps its       *)
(* attachment over many calls, so the property of the rows is inductive only *)
(* together with that of the deliveries, and that with what a call carries   *)
(* since it was made.                                                        *)

Delivery ==
  [dns : {"pending", "propagated"}, tls : {"pending", "issued", "failed"},
   traffic_attached : BOOLEAN, deployment_id : Deployment \cup {NoDeployment}]

ConvergenceCall ==
  [at : {"none", "dns", "tls", "openssl", "attach"},
   deployment : Deployment \cup {NoDeployment}, may_serve : BOOLEAN]

Approved(v, to) == v.traffic_attached => v.deployment_id \in to

DeliveryInv ==
  /\ delivery \in [Converger -> Delivery]
  /\ convergence \in [Converger -> ConvergenceCall]
  /\ \A c \in Converger : convergence[c].may_serve => convergence[c].deployment \in offered
  /\ \A c \in Converger : Approved(delivery[c], offered)
  /\ \A stored \in rows : Approved(stored, offered)

\* Planning an attachment keeps a delivery approved (plan_traffic_attachment).
LEMMA PlanStaysApproved ==
  ASSUME NEW v \in Delivery, NEW call \in ConvergenceCall, NEW to,
         Approved(v, to), call.may_serve => call.deployment \in to
  PROVE  /\ plan_traffic_attachment(v, call) \in Delivery
         /\ Approved(plan_traffic_attachment(v, call), to)
BY Zenon DEF plan_traffic_attachment, Delivery, ConvergenceCall, Approved

\* The calls before the attachment change no target (ensure_dns, issue, run_openssl).
LEMMA ReportsStayApproved ==
  ASSUME NEW v \in Delivery, NEW to, Approved(v, to)
  PROVE  /\ \A dns \in {"pending", "propagated"} :
              /\ [v EXCEPT !.dns = dns] \in Delivery
              /\ Approved([v EXCEPT !.dns = dns], to)
         /\ \A tls \in {"issued", "failed"} :
              /\ [v EXCEPT !.tls = tls] \in Delivery
              /\ Approved([v EXCEPT !.tls = tls], to)
         /\ [v EXCEPT !.tls = "failed", !.traffic_attached = FALSE] \in Delivery
         /\ Approved([v EXCEPT !.tls = "failed", !.traffic_attached = FALSE], to)
BY Zenon DEF Delivery, Approved

\* A call that goes on keeps what it carries.
LEMMA GoOnKeeps ==
  ASSUME convergence \in [Converger -> ConvergenceCall], NEW c \in Converger,
         NEW at \in {"tls", "openssl", "attach"}, GoOn(c, at)
  PROVE  /\ convergence' \in [Converger -> ConvergenceCall]
         /\ \A b \in Converger :
              /\ convergence'[b].may_serve = convergence[b].may_serve
              /\ convergence'[b].deployment = convergence[b].deployment
BY DEF GoOn, ConvergenceCall

\* Every step of a convergence preserves the invariant of the deliveries.
LEMMA DeliveryStep == DeliveryInv /\ [DomainsNext]_domains => DeliveryInv'
<1> SUFFICES ASSUME DeliveryInv, [DomainsNext]_domains PROVE DeliveryInv'
  OBVIOUS
<1>1. ASSUME NEW c \in Converger, NEW d \in Deployment, NEW may_serve \in BOOLEAN,
             converge_domain(c, d, may_serve)
      PROVE  DeliveryInv'
  <2> DEFINE call == [at |-> "dns", deployment |-> d, may_serve |-> may_serve]
  <2>1. call \in ConvergenceCall /\ call.may_serve = may_serve /\ call.deployment = d
    BY Zenon DEF ConvergenceCall
  <2>2. /\ convergence' = [convergence EXCEPT ![c] = call]
        /\ offered \subseteq offered' /\ (may_serve => d \in offered')
        /\ UNCHANGED <<delivery, rows>>
    BY <1>1, Zenon DEF converge_domain
  <2> HIDE DEF call
  <2>3. QED
    BY <2>1, <2>2, Zenon DEF DeliveryInv, Approved
<1>2. ASSUME NEW c \in Converger, ensure_dns(c) PROVE DeliveryInv'
  <2>1. PICK dns \in {"propagated", "pending"} :
          delivery' = [delivery EXCEPT ![c].dns = dns]
    BY <1>2, Zenon DEF ensure_dns
  <2>2. delivery' = [delivery EXCEPT ![c] = [delivery[c] EXCEPT !.dns = dns]]
    BY <2>1
  <2>3. delivery' \in [Converger -> Delivery] /\ \A b \in Converger : Approved(delivery'[b], offered)
    BY <2>2, ReportsStayApproved, Zenon DEF DeliveryInv
  <2>4. QED
    BY <1>2, <2>3, GoOnKeeps DEF ensure_dns, DeliveryInv
<1>3. ASSUME NEW c \in Converger, issue(c) \/ run_openssl(c) PROVE DeliveryInv'
  <2>1. \/ delivery' = delivery
        \/ \E tls \in {"issued", "failed"} :
             delivery' = [delivery EXCEPT ![c] = [delivery[c] EXCEPT !.tls = tls]]
        \/ delivery' = [delivery EXCEPT ![c] =
                         [delivery[c] EXCEPT !.tls = "failed", !.traffic_attached = FALSE]]
    BY <1>3 DEF issue, run_openssl, report_certificate_failure
  <2>2. \/ delivery' = delivery
        \/ \E v \in Delivery : Approved(v, offered) /\ delivery' = [delivery EXCEPT ![c] = v]
    <3>1. delivery[c] \in Delivery /\ Approved(delivery[c], offered)
      BY DEF DeliveryInv
    <3>2. CASE \E tls \in {"issued", "failed"} :
                 delivery' = [delivery EXCEPT ![c] = [delivery[c] EXCEPT !.tls = tls]]
      BY <3>1, <3>2, ReportsStayApproved, Zenon
    <3>3. CASE delivery' = [delivery EXCEPT ![c] =
                 [delivery[c] EXCEPT !.tls = "failed", !.traffic_attached = FALSE]]
      BY <3>1, <3>3, ReportsStayApproved, Zenon
    <3>4. QED
      BY <2>1, <3>2, <3>3
  <2>3. delivery' \in [Converger -> Delivery] /\ \A b \in Converger : Approved(delivery'[b], offered)
    BY <2>2 DEF DeliveryInv
  <2>4. \E at \in {"tls", "openssl", "attach"} : GoOn(c, at)
    BY <1>3 DEF issue, run_openssl
  <2>5. UNCHANGED <<rows, offered>>
    BY <1>3 DEF issue, run_openssl
  <2>6. QED
    BY <2>3, <2>4, <2>5, GoOnKeeps, Zenon DEF DeliveryInv
<1>4. ASSUME NEW c \in Converger, AttachAndSave(c) PROVE DeliveryInv'
  <2> DEFINE v == plan_traffic_attachment(delivery[c], convergence[c])
  <2>1. v \in Delivery /\ Approved(v, offered)
    BY PlanStaysApproved, Zenon DEF DeliveryInv
  <2>2. /\ delivery' = [delivery EXCEPT ![c] = v]
        /\ rows' \subseteq rows \cup {delivery'[c]}
        /\ convergence' = [convergence EXCEPT ![c] = NoConvergence]
        /\ offered' = offered
    BY <1>4, Zenon DEF AttachAndSave
  <2>3. NoConvergence \in ConvergenceCall /\ ~NoConvergence.may_serve
    BY DEF NoConvergence, ConvergenceCall
  <2> HIDE DEF v
  <2>4. QED
    BY <2>1, <2>2, <2>3, Zenon DEF DeliveryInv
<1>5. ASSUME UNCHANGED <<delivery, convergence, rows, offered>> PROVE DeliveryInv'
  BY <1>5, Zenon DEF DeliveryInv
<1>6. QED
  BY <1>1, <1>2, <1>3, <1>4, <1>5, Zenon
     DEF DomainsNext, WriteFile, ClearDirectory, domains

\* Whatever calls overlap, fail or are refused, a row that says traffic is
\* attached names a deployment that was promoted and approved (converge_domain).
THEOREM TrafficIsApproved ==
  DomainsInit /\ [][DomainsNext]_domains => []TrafficStaysApproved
<1>1. DomainsInit => DeliveryInv
  BY DEF DomainsInit, DeliveryInv, DomainDelivery, NoConvergence, Delivery, ConvergenceCall,
         Approved
<1>2. DeliveryInv => TrafficStaysApproved
  BY Zenon DEF DeliveryInv, TrafficStaysApproved, Approved
<1>3. QED
  BY <1>1, <1>2, DeliveryStep, PTL
=============================================================================
