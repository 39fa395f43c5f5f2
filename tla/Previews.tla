------------------------------ MODULE Previews ------------------------------
(***************************************************************************)
(* Health-gated previews: PreviewManager, the container executor it drives *)
(* and the rows of the tables executions and previews.                     *)
(*                                                                         *)
(* start_preview is a sequence of awaits: the runtime check, docker build, *)
(* docker run, the probe, and writes to the database.  Each may fail, and  *)
(* the process may die between any two.  The plan of a preview lives in    *)
(* the memory of the caller and is lost with the process; rows and         *)
(* containers stay.  Docker itself is external: a run that the client gave *)
(* up on may still be carried out by the daemon, later.                    *)
(***************************************************************************)
EXTENDS Naturals

CONSTANTS
  Preview,     \* one value per call of start_preview
  Config       \* the runtime configurations in use

VARIABLES
  pc,          \* the step each call has come to
  cut,         \* the step at which a call ended in an error or a crash
  config,      \* RuntimeConfig of each call
  plan,        \* WebPreview, as the caller holds it
  container,   \* the container of each preview, as the daemon has it
  port,        \* the host port that docker reported, "own", or none
  answer,      \* what the probe was answered
  runs,        \* previews whose container is named by a row of executions
  row,         \* previews: the row of each preview
  closed       \* how access was last ended by a call that succeeded

memory == <<pc, cut, plan>>
previews == <<pc, cut, config, plan, container, port, answer, runs, row, closed>>

-----------------------------------------------------------------------------
ConfigShape ==
  [ profile : {"development", "production"},
    path : {"none", "configured"},            \* healthcheck_path
    network : {"disabled", "isolated", "bridged"},
    limits : BOOLEAN,                         \* every limit is positive
    port : BOOLEAN ]                          \* the container port is not 0

ASSUME PreviewAssumption == Config \subseteq ConfigShape

HealthStatus == {"starting", "healthy", "unhealthy", "unknown"}

PreviewStatus == {"pending", "building", "available", "unavailable", "expired"}

BuildStatus == {"succeeded", "failed", "cancelled"}

WebPreview == [status : PreviewStatus, url : BOOLEAN]

Row == [status : PreviewStatus, url : BOOLEAN, container : BOOLEAN]

NoRow == [status |-> "none", url |-> FALSE, container |-> FALSE]

\* The classes of HTTP status that health tells apart; "none" is no answer.
Answer == {"2xx", "3xx", "other", "none"}

-----------------------------------------------------------------------------
(* The plan: WebPreview and its operations. *)

New == [status |-> "pending", url |-> FALSE]

notify_build_started(w) == [w EXCEPT !.status = "building"]

\* An available or expired preview refuses the result; callers ignore that.
record_build(w, result) ==
  IF w.status \in {"available", "expired"} THEN w
  ELSE IF result = "succeeded"
       THEN [w EXCEPT !.status = IF @ = "pending" THEN "building" ELSE @]
       ELSE [w EXCEPT !.status = "unavailable"]

record_health(w, health) ==
  IF w.status = "expired" THEN w
  ELSE CASE health = "healthy" -> [status |-> "available", url |-> TRUE]
         [] health = "starting" ->
              [w EXCEPT !.status = IF @ = "pending" THEN "building" ELSE @]
         [] OTHER -> [w EXCEPT !.status = "unavailable"]

expire(w) == [w EXCEPT !.status = "expired"]

\* Mutation of temporary_url: an issued URL is given out in every status.
issued_url(w) == w.url

temporary_url(w) == w.status = "available" /\ w.url

-----------------------------------------------------------------------------
(* Limits and health. *)

allows_port_exposure(c) == c.network # "disabled"

validate(c) == c.limits

enforce_limits_before_schedule(c) == validate(c) /\ c.port

\* Mutation of evaluate_health: a redirect is healthy in production too.
evaluate_health_dev(c, status) ==
  CASE status = "none" -> IF c.path = "none" THEN "unknown" ELSE "unhealthy"
    [] status \in {"2xx", "3xx"} -> "healthy"
    [] OTHER -> "unhealthy"

\* The probe asks for the configured path itself, so the paths always agree.
evaluate_health(c, status) ==
  CASE status = "none" -> IF c.path = "none" THEN "unknown" ELSE "unhealthy"
    [] c.profile = "development" ->
         IF status \in {"2xx", "3xx"} THEN "healthy" ELSE "unhealthy"
    [] c.profile = "production" ->
         IF status = "2xx" THEN "healthy" ELSE "unhealthy"

probe_health(c, status) ==
  IF allows_port_exposure(c) THEN evaluate_health(c, status) ELSE "unknown"

\* What a workload behind the probed port may answer.  Without a reported port
\* the probe goes to the container port on the host, where any process may
\* listen; http_status_via reads an answer that cannot be parsed as none.
Answers(p) ==
  IF port[p] = "own" /\ container[p] # "running" THEN {"none"} ELSE Answer

-----------------------------------------------------------------------------
(* The executor: what each docker command may come to. *)

check_available == {"available", "unavailable"}

\* A build that exceeds its time is reported as cancelled.
docker_build(c) == IF validate(c) THEN BuildStatus ELSE {"failed"}

\* A port is published on the host unless the network is disabled.
docker_run_publishes(c) == allows_port_exposure(c)

\* The port is asked for in a second command, whose failure is ignored.
inspect_host_port(c) ==
  IF docker_run_publishes(c) THEN {"own", "none"} ELSE {"none"}

\* A docker run that fails was the daemon's refusal, or the client's after
\* 120 seconds: then the daemon may have carried the order out, or may still
\* do so.  No caller is told the id of such a stray container.
run_docker_fails == {"none", "ordered", "stray"}

\* stop, whose failure is ignored, and then rm: each may fail, and both tolerate
\* a container that is gone.
cleanup(c) == IF c = "gone" THEN {c} ELSE {c, "stopped", "gone"}

-----------------------------------------------------------------------------
PreviewsInit ==
  /\ pc = [p \in Preview |-> "idle"]
  /\ cut = [p \in Preview |-> "none"]
  /\ config \in [Preview -> Config]
  /\ plan = [p \in Preview |-> New]
  /\ container = [p \in Preview |-> "none"]
  /\ port = [p \in Preview |-> "none"]
  /\ answer = [p \in Preview |-> "none"]
  /\ runs = {}
  /\ row = [p \in Preview |-> NoRow]
  /\ closed = [p \in Preview |-> "open"]

\* The call returns an error to its caller, who is left without the plan.
Give(p) ==
  /\ pc' = [pc EXCEPT ![p] = "failed"]
  /\ cut' = [cut EXCEPT ![p] = pc[p]]
  /\ UNCHANGED plan

Go(p, step) == pc' = [pc EXCEPT ![p] = step] /\ UNCHANGED cut

-----------------------------------------------------------------------------
(* start_preview, one action per await that other actors can tell.  Events, *)
(* logs and evidence are appended on the way: where the code lets a failed  *)
(* append end the call, the action may fail.                                *)

Begin(p) ==
  /\ pc[p] = "idle"
  /\ \/ /\ enforce_limits_before_schedule(config[p])
        /\ plan' = [plan EXCEPT ![p] = notify_build_started(@)]
        /\ Go(p, "checking")
     \/ Give(p)
  /\ UNCHANGED <<config, container, port, answer, runs, row, closed>>

CheckAvailable(p) ==
  /\ pc[p] = "checking"
  /\ \E runtime \in check_available :
       IF runtime = "available"
       THEN Go(p, "building") /\ UNCHANGED plan
       ELSE /\ plan' = [plan EXCEPT ![p] = record_build(@, "failed")]
            /\ Go(p, "storing")
  /\ UNCHANGED <<config, container, port, answer, runs, row, closed>>

Build(p) ==
  /\ pc[p] = "building"
  /\ \/ \E result \in docker_build(config[p]) :
          /\ plan' = [plan EXCEPT ![p] = record_build(@, result)]
          /\ Go(p, IF result = "succeeded" THEN "running" ELSE "storing")
     \/ Give(p)
  /\ UNCHANGED <<config, container, port, answer, runs, row, closed>>

RunStarted(p) ==
  /\ pc[p] = "running"
  /\ container' = [container EXCEPT ![p] = "running"]
  /\ port' \in {[port EXCEPT ![p] = host] :
                  host \in inspect_host_port(config[p])}
  /\ Go(p, "probing")
  /\ UNCHANGED <<config, plan, answer, runs, row, closed>>

RunFailed(p) ==
  /\ pc[p] = "running"
  /\ container' \in {[container EXCEPT ![p] = c] :
                       c \in run_docker_fails}
  /\ plan' = [plan EXCEPT ![p] = record_build(@, "failed")]
  /\ Go(p, "storing")
  /\ UNCHANGED <<config, port, answer, runs, row, closed>>

DaemonStarts(p) ==
  /\ container[p] = "ordered"
  /\ container' = [container EXCEPT ![p] = "stray"]
  /\ UNCHANGED <<pc, cut, config, plan, port, answer, runs, row, closed>>

Probe(p) ==
  /\ pc[p] = "probing"
  /\ answer' \in {[answer EXCEPT ![p] = a] : a \in Answers(p)}
  /\ Go(p, "recording")
  /\ UNCHANGED <<config, plan, container, port, runs, row, closed>>

\* Mutation of RecordRun: the row is left for later.
RecordRunLater(p) ==
  /\ pc[p] = "recording"
  /\ \/ Go(p, "judging") /\ UNCHANGED plan
     \/ Give(p)
  /\ UNCHANGED <<config, container, port, answer, runs, row, closed>>

RecordRun(p) ==
  /\ pc[p] = "recording"
  /\ \/ /\ runs' = runs \cup {p}
        /\ Go(p, "judging")
        /\ UNCHANGED plan
     \/ Give(p) /\ UNCHANGED runs
  /\ UNCHANGED <<config, container, port, answer, row, closed>>

RecordHealth(p) ==
  LET health == probe_health(config[p], answer[p]) IN
  /\ pc[p] = "judging"
  /\ \/ /\ plan' = [plan EXCEPT ![p] = record_health(@, health)]
        /\ Go(p, IF health = "healthy" THEN "publishing" ELSE "cleaning")
     \/ Give(p)
  /\ UNCHANGED <<config, container, port, answer, runs, row, closed>>

\* A failure is ignored.
Cleaned(p) ==
  container' \in {[container EXCEPT ![p] = c] : c \in cleanup(container[p])}

Clean(p) ==
  /\ pc[p] = "cleaning"
  /\ Cleaned(p)
  /\ Go(p, "storing")
  /\ UNCHANGED <<config, plan, port, answer, runs, row, closed>>

upsert(p, named) ==
  row' = [row EXCEPT ![p] =
            [status |-> plan[p].status,
             url |-> temporary_url(plan[p]),
             container |-> named]]

\* Only a healthy preview is stored with its container.
Store(p) ==
  /\ pc[p] \in {"storing", "publishing"}
  /\ \/ upsert(p, pc[p] = "publishing") /\ Go(p, "returned") /\ UNCHANGED plan
     \/ upsert(p, pc[p] = "publishing") /\ pc[p] = "storing" /\ Give(p)
     \/ Give(p) /\ UNCHANGED row
  /\ UNCHANGED <<config, container, port, answer, runs, closed>>

-----------------------------------------------------------------------------
(* The caller ends the preview.  StartedPreview has the id of the container *)
(* only if the preview was healthy, which is when its URL was issued.       *)

Held(p) == plan[p].url

ExpirePreview(p) ==
  /\ pc[p] = "returned"
  /\ IF Held(p) THEN Cleaned(p) ELSE UNCHANGED container
  /\ plan' = [plan EXCEPT ![p] = expire(@)]
  /\ Go(p, "expiring")
  /\ UNCHANGED <<config, port, answer, runs, row, closed>>

RevokePreview(p) ==
  /\ pc[p] = "returned"
  /\ IF Held(p) THEN Cleaned(p) ELSE UNCHANGED container
  /\ plan' = [plan EXCEPT ![p] = record_build(@, "failed")]
  /\ Go(p, "revoking")
  /\ UNCHANGED <<config, port, answer, runs, row, closed>>

\* The rest of either call.  On an error the caller still holds the plan.
EndAccess(p) ==
  /\ pc[p] \in {"expiring", "revoking"}
  /\ \/ /\ upsert(p, FALSE)
        /\ closed' = [closed EXCEPT ![p] =
                        IF pc[p] = "expiring" THEN "expired" ELSE "revoked"]
     \/ UNCHANGED <<row, closed>>
  /\ Go(p, "returned")
  /\ UNCHANGED <<config, plan, container, port, answer, runs>>

\* The process dies: calls in progress end, and the plans are gone.
Crash ==
  /\ \E p \in Preview : pc[p] \notin {"idle", "failed", "lost"}
  /\ cut' = [p \in Preview |->
               IF pc[p] \in {"idle", "failed", "lost"} THEN cut[p] ELSE pc[p]]
  /\ pc' = [p \in Preview |->
              IF pc[p] \in {"idle", "failed"} THEN pc[p] ELSE "lost"]
  /\ UNCHANGED <<config, plan, container, port, answer, runs, row, closed>>

Start(p) ==
  \/ Begin(p) \/ CheckAvailable(p) \/ Build(p) \/ RunStarted(p) \/ RunFailed(p)
  \/ Probe(p) \/ RecordRun(p) \/ RecordHealth(p) \/ Clean(p) \/ Store(p)

PreviewsNext ==
  \/ \E p \in Preview :
       \/ Start(p) \/ DaemonStarts(p)
       \/ ExpirePreview(p) \/ RevokePreview(p) \/ EndAccess(p)
  \/ Crash

-----------------------------------------------------------------------------
(***************************************************************************)
(* A URL is on record only for a preview that a process answered on the    *)
(* port probed for it: with 2xx, or in development also 3xx, and never in  *)
(* a sandbox without network.  (start_preview, evaluate_health)            *)
(***************************************************************************)
UrlMeansAnswered ==
  \A p \in Preview :
    row[p].url =>
      /\ row[p].status = "available"
      /\ config[p].network # "disabled"
      /\ \/ answer[p] = "2xx"
         \/ answer[p] = "3xx" /\ config[p].profile = "development"

(***************************************************************************)
(* Once expire_preview has returned, no row offers the URL again, whatever *)
(* the caller does with the plan it still holds.  (WebPreview::expire)     *)
(***************************************************************************)
ExpiredStaysClosed ==
  \A p \in Preview :
    (row[p].status = "expired" \/ closed[p] = "expired") => ~row[p].url

(***************************************************************************)
(* A container that docker run reported is named by a row from then on,    *)
(* until it is removed; the one exception is a call that is between docker *)
(* run and the write to executions, or was cut short there.                *)
(* (start_preview)                                                         *)
(***************************************************************************)
LeaksAreKnown ==
  \A p \in Preview :
    (container[p] = "running" /\ p \notin runs /\ ~row[p].container) =>
      \/ pc[p] \in {"probing", "recording"}
      \/ cut[p] \in {"probing", "recording"}
=============================================================================
