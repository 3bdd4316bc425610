-------------------------- MODULE ProcessLifecycle --------------------------
(***************************************************************************)
(* A server or worker process: the lifecycle hooks in the order they are   *)
(* appended, the listeners and goroutines they start, the calls these      *)
(* serve, and the end of the process by a signal, a failed start, a        *)
(* timeout or a panic.                                                     *)
(*                                                                         *)
(* fx runs the start hooks in order and the stop hooks of those that have  *)
(* started in reverse.  Both sequences have a deadline, at which Run gives *)
(* up and the process ends.  A signal during start waits for its end.      *)
(***************************************************************************)
EXTENDS AccountTransport, Sequences

CONSTANTS
  Calls,   \* bound: requests and runs of background work, each used once
  Faults   \* subset of FaultKinds

\* bind: an address is taken; tracing: the tracer cannot be set up; panic: a
\* handler panics.
FaultKinds == {"bind", "tracing", "panic"}

ASSUME ProcessAssumption == Faults \subseteq FaultKinds

VARIABLES
  command,   \* what the process runs
  phase,     \* what fx does
  started,   \* number of hooks started and not stopped
  part,      \* part[h] : state of what hook h starts
  call,      \* call[c] : see Call
  why        \* why the process has ended

vars == <<command, phase, started, part, call, why>>

HttpServers == {"api", "health", "probe"}
Servers == HttpServers \cup {"grpc"}
Background == {"consumer", "job"}
Parts == {"tracing", "redis"} \cup Servers \cup Background

\* Mutant: the Redis client is built after the servers.
RedisLast ==
  IF command = "server" THEN <<"tracing", "api", "grpc", "health", "redis">>
                        ELSE <<"tracing", "probe", "consumer", "job", "redis">>

\* Tracing is set up by a module; the client is built for the starter, which then
\* appends its own hooks.
Hooks ==
  IF command = "server" THEN <<"tracing", "redis", "api", "grpc", "health">>
                        ELSE <<"tracing", "redis", "probe", "consumer", "job">>

\* ready: a readiness probe; watch: a stream of the gRPC health service, open until
\* its client leaves; work: an event or a tick.
OtherRequest == [op : {"ready", "watch", "work"}, flaw : {"none"}]
Request == HttpRequest \cup GrpcRequest \cup OtherRequest

\* at: who serves it; outcome: how the handler ended; told: what the caller hears,
\* a status or code.
NoCall == [at |-> "nobody", req |-> [op |-> "work", flaw |-> "none"], step |-> "none",
           outcome |-> "none", told |-> Nothing]

Init ==
  /\ command \in {"server", "worker"}
  /\ phase = "starting"
  /\ started = 0
  /\ part = [h \in Parts |-> "new"]
  /\ call = [c \in Calls |-> NoCall]
  /\ why = "none"
-----------------------------------------------------------------------------
(* Start. *)

Become(h, state) == part' = [part EXCEPT ![h] = state]

\* An HTTP server starts in a goroutine; the gRPC server binds first.
StartHook ==
  /\ phase = "starting"
  /\ started < Len(Hooks)
  /\ LET h == Hooks[started + 1]
     IN  Become(h, IF h \in HttpServers THEN "launched" ELSE "open")
  /\ started' = started + 1
  /\ UNCHANGED <<command, phase, call, why>>

\* An error of a start hook: what has started is stopped again.
StartFails ==
  /\ phase = "starting"
  /\ started < Len(Hooks)
  /\ \/ Hooks[started + 1] = "tracing" /\ "tracing" \in Faults
     \/ Hooks[started + 1] = "grpc" /\ "bind" \in Faults
  /\ phase' = "rollback"
  /\ UNCHANGED <<command, started, part, call, why>>

Started ==
  /\ phase = "starting"
  /\ started = Len(Hooks)
  /\ phase' = "serving"
  /\ UNCHANGED <<command, started, part, call, why>>

\* ListenAndServe; its error is only logged.
Listen(s) ==
  /\ phase # "exited"
  /\ part[s] = "launched"
  /\ \/ Become(s, "open")
     \/ "bind" \in Faults /\ Become(s, "failed")
  /\ UNCHANGED <<command, phase, started, call, why>>
-----------------------------------------------------------------------------
(* Stop. *)

Signal ==
  /\ phase = "serving"
  /\ phase' = "stopping"
  /\ UNCHANGED <<command, started, part, call, why>>

Serving(c) == call[c].step = "handling"

\* Mutant: one group of all that runs, background work included.
IdleOfAll(s) == \A c \in Calls : ~Serving(c)

Idle(s) == \A c \in Calls : call[c].at = s => ~Serving(c)

Top == Hooks[started]

Unwinding == phase \in {"rollback", "stopping"} /\ started > 0

\* Mutant: Close, which waits for nobody.
CloseAtOnce ==
  /\ Unwinding
  /\ Top \in Servers
  /\ part[Top] # "open"
  /\ Become(Top, "closed")
  /\ started' = started - 1
  /\ UNCHANGED <<command, phase, call, why>>

\* Shutdown and GracefulStop: close the listener, then wait for the calls.
Drain ==
  /\ Unwinding
  /\ Top \in Servers
  /\ part[Top] = "open"
  /\ Become(Top, "draining")
  /\ UNCHANGED <<command, phase, started, call, why>>

\* A server that never listened has nothing to wait for.
StopServer ==
  /\ Unwinding
  /\ Top \in Servers
  /\ part[Top] # "open"
  /\ Idle(Top)
  /\ Become(Top, "closed")
  /\ started' = started - 1
  /\ UNCHANGED <<command, phase, call, why>>

\* The tracer is shut down, the client closed, the context of a goroutine
\* cancelled: nobody waits for the goroutine.
StopOther ==
  /\ Unwinding
  /\ Top \notin Servers
  /\ Become(Top, "closed")
  /\ started' = started - 1
  /\ UNCHANGED <<command, phase, call, why>>

End(reason) ==
  /\ phase' = "exited"
  /\ why' = reason
  /\ UNCHANGED <<command, started, part, call>>

Exit ==
  /\ started = 0
  /\ \/ phase = "stopping" /\ End("stopped")
     \/ phase = "rollback" /\ End("start_failed")

\* START_TIMEOUT or STOP_TIMEOUT is over: Run leaves the hook where it is.
Expire ==
  /\ phase \in {"starting", "rollback", "stopping"}
  /\ End("timeout")
-----------------------------------------------------------------------------
(* Calls. *)

RequestsAt(s) ==
  CASE s = "api" -> HttpRequest \cup {[op |-> "ready", flaw |-> "none"]}
    [] s = "grpc" -> GrpcRequest \cup {[op |-> "watch", flaw |-> "none"]}
    [] s \in {"health", "probe"} -> {[op |-> "ready", flaw |-> "none"]}
    [] OTHER -> {[op |-> "work", flaw |-> "none"]}

\* A tick that is already in the channel may win against the cancelled context.
Arrive(c, s) ==
  /\ phase # "exited"
  /\ call[c].step = "none"
  /\ part[s] = "open" \/ (s = "job" /\ part[s] = "closed")
  /\ \E r \in RequestsAt(s) :
       call' = [call EXCEPT ![c].at = s, ![c].req = r, ![c].step = "handling"]
  /\ UNCHANGED <<command, phase, started, part, why>>

Finish(c, o, t) ==
  /\ phase # "exited"
  /\ Serving(c)
  /\ call' = [call EXCEPT ![c].step = "done", ![c].outcome = o, ![c].told = t]
  /\ UNCHANGED <<command, phase, started, part, why>>

IsAccountCall(c) == call[c].req.op \in Ops

HttpCall(c) ==
  /\ call[c].at = "api"
  /\ IsAccountCall(c)
  /\ LET r == call[c].req
     IN  \/ HttpRefuses(r) /\ Finish(c, "refused", HttpTold(r.op, "refused"))
         \/ ~HttpRefuses(r) /\ \E o \in Outcomes(r) : Finish(c, o, HttpTold(r.op, o))

GrpcCall(c) ==
  /\ call[c].at = "grpc"
  /\ IsAccountCall(c)
  /\ LET r == call[c].req
     IN  \/ GrpcRefuses(r) /\ Finish(c, "refused", GrpcTold("refused"))
         \/ ~GrpcRefuses(r) /\ \E o \in Outcomes(r) : Finish(c, o, GrpcTold(o))

\* Pings Redis and, on the server, PostgreSQL.
ReadyCall(c) ==
  /\ call[c].req.op = "ready"
  /\ \/ part["redis"] # "closed" /\ Finish(c, "ok", 200)
     \/ Finish(c, "unready", 503)

OtherCall(c) ==
  /\ call[c].req.op \in {"watch", "work"}
  /\ Finish(c, "ok", Nothing)

\* The API recovers; net/http recovers for a server without middleware and closes
\* the connection; elsewhere nobody recovers and the process dies.
Panics(c) ==
  /\ "panic" \in Faults
  /\ phase # "exited"
  /\ Serving(c)
  /\ \/ call[c].at = "api" /\ Finish(c, "panic", HttpTold(call[c].req.op, "panic"))
     \/ call[c].at \in {"health", "probe"} /\ Finish(c, "panic", Nothing)
     \/ call[c].at \in {"grpc"} \cup Background /\ End("panic")
-----------------------------------------------------------------------------
Handle(c) == HttpCall(c) \/ GrpcCall(c) \/ ReadyCall(c)

Next ==
  \/ StartHook \/ StartFails \/ Started \/ Signal
  \/ Drain \/ StopServer \/ StopOther \/ Exit \/ Expire
  \/ \E s \in HttpServers : Listen(s)
  \/ \E c \in Calls :
       \/ \E s \in Servers \cup Background : Arrive(c, s)
       \/ Handle(c) \/ OtherCall(c) \/ Panics(c)

Spec == Init /\ [][Next]_vars
-----------------------------------------------------------------------------
(* Properties. *)

States == {"new", "launched", "open", "failed", "draining", "closed"}
Steps == {"none", "handling", "done"}
Failures == DOMAIN HttpStatus \cup {"plain", "refused", "unready", "panic"}

TypeOK ==
  /\ command \in {"server", "worker"}
  /\ phase \in {"starting", "serving", "rollback", "stopping", "exited"}
  /\ started \in 0..Len(Hooks)
  /\ part \in [Parts -> States]
  /\ call \in [Calls -> [at : Servers \cup Background \cup {"nobody"}, req : Request,
                        step : Steps, outcome : Failures \cup {"ok", "none"},
                        told : Int]]
  /\ why \in {"none", "stopped", "start_failed", "timeout", "panic"}

Live == {"launched", "open", "failed"}
Unwound == phase \in {"rollback", "stopping", "exited"}

\* Hooks below the top are up, those above it are down; only the top one drains.
InPlace(k) ==
  \/ k <= started /\ part[Hooks[k]] \in Live
  \/ k = started /\ Unwound /\ part[Hooks[k]] = "draining"
  \/ k > started /\ part[Hooks[k]] = "new"
  \/ k > started /\ Unwound /\ part[Hooks[k]] = "closed"

InOrder == \A k \in 1..Len(Hooks) : InPlace(k)

\* Parts of the other command do not exist here.
OnlyHooked == \A h \in Parts : (\A k \in 1..Len(Hooks) : Hooks[k] # h) => part[h] = "new"

\* A server that serves a call has not been stopped.
ServedByServers ==
  \A c \in Calls :
    Serving(c) /\ call[c].at \in Servers => part[call[c].at] \in {"open", "draining"}

EndsKnown ==
  /\ why # "none" <=> phase = "exited"
  /\ why \in {"stopped", "start_failed"} => started = 0

\* The inductive invariant.
LifecycleInv ==
  /\ TypeOK
  /\ InOrder
  /\ OnlyHooked
  /\ ServedByServers
  /\ EndsKnown

\* No request ever meets a closed Redis client: the client is shared by cache and
\* limiter and its hook comes before those of the servers.  (Background work may:
\* nobody waits for its goroutines.)
RedisOutlivesCalls ==
  part["redis"] = "closed" => \A c \in Calls : call[c].at \in Servers => ~Serving(c)

\* A process that ends by itself, after a signal or a failed start and within the
\* deadline, has answered every request it took and has stopped all it started.
CleanExit ==
  why \in {"stopped", "start_failed"} =>
    /\ \A c \in Calls : call[c].at \in Servers => ~Serving(c)
    /\ \A h \in Parts : part[h] \in {"new", "closed"}

\* A stop ends by itself, without the help of its deadline, after a signal as after a
\* failed start, whatever is open and however long background work runs: every hook
\* returns.  Only a watcher can keep it, for GracefulStop has no bound of its own; the
\* stop ends once none is left.
Watched == \E c \in Calls : Serving(c) /\ call[c].req.op = "watch"

StopEnds ==
  phase \in {"rollback", "stopping"} /\ ~Watched ~> phase = "exited" \/ Watched

\* A caller is told success exactly when the use case has succeeded: no error and
\* no panic on the way through handler and middleware gets lost.
FailureTold ==
  \A c \in Calls : call[c].step = "done" /\ IsAccountCall(c) =>
    (call[c].outcome = "ok" <=> call[c].told \in {OK, 200, 201, 204})

\* The usual HTTP status of a gRPC code: the reference for the catalog.
Usual ==
  [k \in {InvalidArgument, NotFound, AlreadyExists, ResourceExhausted, Internal} |->
     CASE k = InvalidArgument -> 400
       [] k = NotFound -> 404
       [] k = AlreadyExists -> 409
       [] k = ResourceExhausted -> 429
       [] k = Internal -> 500]

\* Two callers whose calls failed for the same reason hear the same, one in HTTP
\* and one in gRPC.
TransportsAgree ==
  \A c, d \in Calls :
    /\ call[c].step = "done" /\ call[c].at = "api" /\ IsAccountCall(c)
    /\ call[d].step = "done" /\ call[d].at = "grpc" /\ IsAccountCall(d)
    /\ call[c].outcome = call[d].outcome /\ call[c].outcome # "ok"
    => call[c].told = Usual[call[d].told]
=============================================================================
