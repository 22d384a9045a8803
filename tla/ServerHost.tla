----------------------------- MODULE ServerHost ------------------------------
(***************************************************************************)
(* The process: ServerHost starts the application and the HTTP and gRPC    *)
(* transports, watches them, and shuts all three down; ShutdownTrigger     *)
(* tells the transports; the gRPC task also tracks readiness and publishes *)
(* it as standard gRPC health.                                             *)
(*                                                                         *)
(* The servers themselves (axum, tonic) are libraries: they serve until    *)
(* their shutdown future completes, then wait for the requests in flight.  *)
(* The application appears through its readiness and its shutdown, which   *)
(* WorkAdmission bounds.                                                   *)
(***************************************************************************)
EXTENDS Integers

CONSTANT MaxChanges  \* bound on the changes of readiness by admin calls

ASSUME HostAssumption == MaxChanges \in Nat

VARIABLES
    host,       \* where the host is in start, run_until_signal and shutdown
    app,        \* the application: "up", "draining" or "stopped"
    ready,      \* readiness().is_ready()
    changes,    \* readiness changes made by admin calls
    triggered,  \* ShutdownSignal.triggered
    notifying,  \* trigger() is between its swap and notify_waiters
    waiter,     \* each cancelled() future
    told,       \* waiters whose Notified has fired
    server,     \* the two transports' accept loops
    task,       \* the two transports' tasks
    closed,     \* the value of the gRPC handle's shutdown watch
    health,     \* where track_health is
    last,       \* its last_ready
    status,     \* what the health reporter tells about the two service names
    misread     \* history: readiness changed before track_health first looked

Transport == {"http", "grpc"}
Waiter == Transport \cup {"health"}
Name == {"overall", "embedding"}

triggerVars == <<triggered, notifying, waiter, told>>
healthVars == <<health, last, status, misread>>
transportVars == <<server, task, closed>>
appVars == <<app, ready, changes>>
vars == <<host, appVars, triggerVars, transportVars, healthVars>>

Init ==
    /\ host = "binding"
    /\ app = "up" /\ ready = FALSE /\ changes = 0
    /\ triggered = FALSE /\ notifying = FALSE
    /\ waiter = [w \in Waiter |-> "off"] /\ told = {}
    /\ server = [t \in Transport |-> "none"] /\ task = [t \in Transport |-> "none"]
    /\ closed = FALSE
    /\ health = "none" /\ last = FALSE /\ status = [n \in Name |-> FALSE] /\ misread = FALSE

-----------------------------------------------------------------------------
(* start. *)

\* Both listeners are bound before anything runs; a bind may fail.
Bind ==
    /\ host = "binding"
    /\ host' \in {"preload", "failed"}
    /\ UNCHANGED <<appVars, triggerVars, transportVars, healthVars>>

\* preload decides whether a model is ready; under the strict policy it may fail
\* and the application is shut down.
Preload ==
    /\ host = "preload"
    /\ \/ host' = "spawn_grpc" /\ ready' \in BOOLEAN /\ UNCHANGED app
       \/ host' = "failed" /\ app' = "stopped" /\ ready' = FALSE
    /\ UNCHANGED <<changes, triggerVars, transportVars, healthVars>>

\* spawn_grpc_server publishes the readiness it finds and spawns the task; the
\* reflection descriptors may be refused.
SpawnGrpc ==
    /\ host = "spawn_grpc"
    /\ \/ host' = "failed" /\ UNCHANGED <<server, task, health>>
       \/ /\ host' = "spawn_http" /\ health' = "spawned"
          /\ server' = [server EXCEPT !["grpc"] = "serving"]
          /\ task' = [task EXCEPT !["grpc"] = "running"]
    /\ status' = [n \in Name |-> ready]
    /\ UNCHANGED <<appVars, triggerVars, closed, last, misread>>

SpawnHttp ==
    /\ host = "spawn_http"
    /\ host' = "running"
    /\ server' = [server EXCEPT !["http"] = "serving"]
    /\ task' = [task EXCEPT !["http"] = "running"]
    /\ UNCHANGED <<appVars, triggerVars, closed, healthVars>>

-----------------------------------------------------------------------------
(* ShutdownTrigger. *)

\* trigger: only the first caller notifies.
Trigger ==
    /\ triggered' = TRUE
    /\ notifying' = (notifying \/ ~triggered)

\* Mutant: the Notified is registered by its first await only.
NotifySleepers ==
    /\ notifying
    /\ notifying' = FALSE
    /\ told' = told \cup {w \in Waiter : waiter[w] = "asleep"}
    /\ UNCHANGED <<host, appVars, triggered, waiter, transportVars, healthVars>>

Notify ==
    /\ notifying
    /\ notifying' = FALSE
    /\ told' = told \cup {w \in Waiter : waiter[w] \in {"enabled", "looked", "asleep"}}
    /\ UNCHANGED <<host, appVars, triggered, waiter, transportVars, healthVars>>

\* The futures of ws are dropped.
Unregister(ws) ==
    /\ waiter' = [w \in Waiter |-> IF w \in ws THEN "off" ELSE waiter[w]]
    /\ told' = told \ ws

Polled(w) == IF w = "health" THEN health = "select" ELSE server[w] = "serving"

\* cancelled(): the Notified is enabled before the flag is looked at.
Enable(w) ==
    /\ Polled(w) /\ waiter[w] = "off"
    /\ waiter' = [waiter EXCEPT ![w] = "enabled"]
    /\ UNCHANGED <<host, appVars, triggered, notifying, told, transportVars, healthVars>>

Look(w) ==
    /\ Polled(w) /\ waiter[w] = "enabled"
    /\ waiter' = [waiter EXCEPT ![w] = IF triggered THEN "fired" ELSE "looked"]
    /\ UNCHANGED <<host, appVars, triggered, notifying, told, transportVars, healthVars>>

\* The first poll of the Notified itself.
Await(w) ==
    /\ Polled(w) /\ waiter[w] = "looked"
    /\ waiter' = [waiter EXCEPT ![w] = "asleep"]
    /\ UNCHANGED <<host, appVars, triggered, notifying, told, transportVars, healthVars>>

\* The notification arrives: the loop starts again with a new Notified.
Wake(w) ==
    /\ Polled(w) /\ waiter[w] = "asleep" /\ w \in told
    /\ waiter' = [waiter EXCEPT ![w] = "off"]
    /\ told' = told \ {w}
    /\ UNCHANGED <<host, appVars, triggered, notifying, transportVars, healthVars>>

-----------------------------------------------------------------------------
(* The transports. *)

\* An admin call, which arrived over HTTP, changes which models are ready.
ChangeReadiness ==
    /\ server["http"] \in {"serving", "draining"} /\ app = "up" /\ changes < MaxChanges
    /\ ready' = ~ready /\ changes' = changes + 1
    /\ UNCHANGED <<host, app, triggerVars, transportVars, healthVars>>

\* The shutdown future completes: no more connections are accepted.  gRPC also
\* waits for the watch of its own handle.
StopAccepting(t) ==
    /\ server[t] = "serving"
    /\ waiter[t] = "fired" \/ (t = "grpc" /\ closed)
    /\ server' = [server EXCEPT ![t] = "draining"]
    /\ Unregister({t})
    /\ UNCHANGED <<host, appVars, triggered, notifying, task, closed, healthVars>>

\* The last request in flight is answered, which may never happen.
Drained(t) ==
    /\ server[t] = "draining"
    /\ server' = [server EXCEPT ![t] = "ended"]
    /\ UNCHANGED <<host, appVars, triggerVars, task, closed, healthVars>>

\* A server returns an error on its own.
ServerFails(t) ==
    /\ server[t] = "serving"
    /\ server' = [server EXCEPT ![t] = "ended"]
    /\ Unregister({t})
    /\ UNCHANGED <<host, appVars, triggered, notifying, task, closed, healthVars>>

\* The gRPC task is the join of its server and track_health.
TaskEnds(t) ==
    /\ task[t] = "running" /\ server[t] = "ended"
    /\ t = "grpc" => health = "done"
    /\ task' = [task EXCEPT ![t] = "ended"]
    /\ UNCHANGED <<host, appVars, triggerVars, server, closed, healthVars>>

-----------------------------------------------------------------------------
(* track_health. *)

\* The first poll of the task reads readiness anew.
HealthStart ==
    /\ health = "spawned"
    /\ health' = "select" /\ last' = ready
    /\ misread' = \E n \in Name : status[n] # ready
    /\ UNCHANGED <<host, appVars, triggerVars, transportVars, status>>

\* One of the two shutdown arms of the biased select is taken.
HealthStops ==
    /\ health = "select"
    /\ closed \/ waiter["health"] = "fired"
    /\ health' = "final_overall"
    /\ Unregister({"health"})
    /\ UNCHANGED <<host, appVars, triggered, notifying, transportVars, last, status, misread>>

\* Mutant: only a change to ready is published.
HealthTickUp ==
    /\ health = "select" /\ ~closed /\ waiter["health"] = "asleep"
    /\ Unregister({"health"})
    /\ IF ready /\ ~last
       THEN health' = "publish_overall" /\ last' = ready
       ELSE UNCHANGED <<health, last>>
    /\ UNCHANGED <<host, appVars, triggered, notifying, transportVars, status, misread>>

\* interval.tick, the last arm; the cancelled() future of this round is dropped.
HealthTick ==
    /\ health = "select" /\ ~closed /\ waiter["health"] = "asleep"
    /\ Unregister({"health"})
    /\ IF ready # last
       THEN health' = "publish_overall" /\ last' = ready
       ELSE UNCHANGED <<health, last>>
    /\ UNCHANGED <<host, appVars, triggered, notifying, transportVars, status, misread>>

\* publish_health sets the two names one after the other.
Published == [publish_overall   |-> [name |-> "overall",   next |-> "publish_embedding"],
              publish_embedding |-> [name |-> "embedding", next |-> "select"],
              final_overall     |-> [name |-> "overall",   next |-> "final_embedding"],
              final_embedding   |-> [name |-> "embedding", next |-> "done"]]

PublishHealth ==
    /\ health \in DOMAIN Published
    /\ LET final == health \in {"final_overall", "final_embedding"}
       IN  status' = [status EXCEPT ![Published[health].name] = last /\ ~final]
    /\ health' = Published[health].next
    /\ misread' = (misread /\ health \notin {"publish_embedding", "final_embedding"})
    /\ UNCHANGED <<host, appVars, triggerVars, transportVars, last>>

-----------------------------------------------------------------------------
(* run_until_signal, shutdown and the destructor. *)

\* A task is aborted, or ends in a panic.
Kill(ts) ==
    /\ task' = [t \in Transport |-> IF t \in ts /\ task[t] = "running" THEN "aborted" ELSE task[t]]
    /\ server' = [t \in Transport |-> IF t \in ts /\ task[t] = "running" THEN "ended" ELSE server[t]]
    /\ health' = IF "grpc" \in ts /\ task["grpc"] = "running" THEN "gone" ELSE health
    /\ Unregister(ts \cup (IF "grpc" \in ts THEN {"health"} ELSE {}))

Panic(t) ==
    /\ task[t] = "running"
    /\ Kill({t})
    /\ UNCHANGED <<host, appVars, triggered, notifying, closed, last, status, misread>>

\* Ctrl-C or SIGTERM, or the poll of the two handles that finds one finished.
LeaveLoop ==
    /\ host = "running"
    /\ host' = "trigger"
    /\ UNCHANGED <<appVars, triggerVars, transportVars, healthVars>>

Signal == LeaveLoop
NoticeStop == (\E t \in Transport : task[t] # "running") /\ LeaveLoop

\* shutdown: the trigger, and then the three branches of one join.
ShutdownTrigger ==
    /\ host = "trigger"
    /\ Trigger
    /\ host' = "drain"
    /\ UNCHANGED <<appVars, waiter, told, transportVars, healthVars>>

ShutdownApplication ==
    /\ host = "drain" /\ ~notifying
    /\ app' = "draining" /\ ready' = FALSE
    /\ host' = "close"
    /\ UNCHANGED <<changes, triggerVars, transportVars, healthVars>>

ShutdownGrpc ==
    /\ host = "close"
    /\ closed' = TRUE
    /\ host' = "join"
    /\ UNCHANGED <<appVars, triggerVars, server, task, healthVars>>

\* application.shutdown returns; it is bounded by its own deadline.
ApplicationStops ==
    /\ app = "draining"
    /\ app' = "stopped"
    /\ UNCHANGED <<host, ready, changes, triggerVars, transportVars, healthVars>>

\* The bound of finish_http or of the gRPC handle passes: the task is aborted.
Timeout(t) ==
    /\ host = "join" /\ task[t] = "running"
    /\ Kill({t})
    /\ UNCHANGED <<host, appVars, triggered, notifying, closed, last, status, misread>>

JoinEnds ==
    /\ host = "join" /\ app = "stopped" /\ \A t \in Transport : task[t] # "running"
    /\ host' = "stopped"
    /\ UNCHANGED <<appVars, triggerVars, transportVars, healthVars>>

\* A host that is not shut down is dropped: the signal handler failed, or its
\* future was dropped.
DropHost ==
    /\ host = "running"
    /\ Trigger
    /\ host' = "drop"
    /\ UNCHANGED <<appVars, waiter, told, transportVars, healthVars>>

DropHandles ==
    /\ host = "drop" /\ ~notifying
    /\ Kill(Transport) /\ closed' = TRUE
    /\ host' = "dropped"
    /\ UNCHANGED <<appVars, triggered, notifying, last, status, misread>>

-----------------------------------------------------------------------------
Start == Bind \/ Preload \/ SpawnGrpc \/ SpawnHttp
Shutdown ==
    \/ ShutdownTrigger \/ ShutdownApplication \/ ShutdownGrpc \/ JoinEnds \/ DropHandles
Cancelled(w) == Enable(w) \/ Look(w) \/ Await(w) \/ Wake(w)
Serve(t) == StopAccepting(t) \/ TaskEnds(t)
TrackHealth == HealthStart \/ HealthStops \/ HealthTick \/ PublishHealth

Next ==
    \/ Start \/ Signal \/ NoticeStop \/ DropHost \/ Shutdown \/ ApplicationStops
    \/ Notify \/ TrackHealth \/ ChangeReadiness
    \/ \E w \in Waiter : Cancelled(w)
    \/ \E t \in Transport :
           Serve(t) \/ Drained(t) \/ ServerFails(t) \/ Panic(t) \/ Timeout(t)

Spec == Init /\ [][Next]_vars

\* The executor polls every future that is ready, timers fire and the
\* application's bounded shutdown ends; signals, requests and failures need not
\* come.
FairSpec ==
    /\ Spec
    /\ WF_vars(Start) /\ WF_vars(NoticeStop) /\ WF_vars(Shutdown) /\ WF_vars(ApplicationStops)
    /\ WF_vars(Notify) /\ WF_vars(TrackHealth)
    /\ \A w \in Waiter : WF_vars(Cancelled(w))
    /\ \A t \in Transport : WF_vars(Serve(t)) /\ WF_vars(Timeout(t))

-----------------------------------------------------------------------------
(* Properties. *)

\* Every field holds a value its Rust type can hold.
TypeOK ==
    /\ app \in {"up", "draining", "stopped"} /\ ready \in BOOLEAN /\ changes \in 0 .. MaxChanges
    /\ waiter \in [Waiter -> {"off", "enabled", "looked", "asleep", "fired"}] /\ told \subseteq Waiter
    /\ server \in [Transport -> {"none", "serving", "draining", "ended"}]
    /\ task \in [Transport -> {"none", "running", "ended", "aborted"}]
    /\ status \in [Name -> BOOLEAN]

\* cancelled() has no missed-wakeup window: once trigger has returned, every
\* future that sleeps on it has its notification, also the one track_health makes
\* anew in every round.
TriggerReachesWaiters ==
    /\ TypeOK
    /\ triggered /\ ~notifying =>
           \A w \in Waiter : waiter[w] = "asleep" => w \in told \/ ~Polled(w)

\* track_health alone decides what is published.
Tracking ==
    /\ health \in {"select", "publish_overall", "publish_embedding"}
    /\ ~triggered /\ ~closed /\ ~misread

\* gRPC health tells the truth in the end.  It comes to report the readiness that
\* lasts, for both names: unless readiness changed between the publication in
\* spawn_grpc_server and the first look of track_health, which takes what it finds
\* as published.  And a gRPC task that ran to its end has told both names
\* NOT_SERVING, whatever update the shutdown interrupted.
HealthFollows ==
    /\ \A b \in BOOLEAN :
           <>[](Tracking /\ ready = b) => <>[](\A n \in Name : status[n] = b)
    /\ [](task["grpc"] = "ended" => \A n \in Name : ~status[n])
=============================================================================
