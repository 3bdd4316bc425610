---------------------------- MODULE ProcessProofs ----------------------------
(* Proofs about the boot and the lifecycle of a process, for any calls and   *)
(* any faults.                                                              *)
EXTENDS ProcessBoot, TLAPS

\* Each command has five hooks on five parts: tracing, the client, and what serves.
LEMMA HookShape ==
  ASSUME command \in {"server", "worker"}
  PROVE  /\ Len(Hooks) = 5
         /\ \A k \in 1..5 : Hooks[k] \in Parts
         /\ \A j, k \in 1..5 : Hooks[j] = Hooks[k] => j = k
         /\ Hooks[1] = "tracing" /\ Hooks[2] = "redis"
         /\ \A k \in 3..5 : Hooks[k] \in Servers \cup Background
         /\ \A k \in 1..5 : Hooks[k] # "nobody"
<1>1. CASE command = "server"
  <2>1. Hooks = <<"tracing", "redis", "api", "grpc", "health">>
    BY <1>1 DEF Hooks
  <2>. QED BY <2>1 DEF Parts, Servers, HttpServers, Background
<1>2. CASE command = "worker"
  <2>1. Hooks = <<"tracing", "redis", "probe", "consumer", "job">>
    BY <1>2 DEF Hooks
  <2>. QED BY <2>1 DEF Parts, Servers, HttpServers, Background
<1>. QED BY <1>1, <1>2

\* Both transports tell numbers.
LEMMA ToldType ==
  /\ \A op \in Ops, o \in Failures \cup {"ok"} : HttpTold(op, o) \in Int
  /\ \A op : HttpTold(op, "panic") \in Int
  /\ \A o \in Failures \cup {"ok"} : GrpcTold(o) \in Int
<1>1. \A e : FromError(e) \in DOMAIN HttpStatus
  BY DEF FromError, HttpStatus
<1>2. \A k \in DOMAIN HttpStatus : HttpStatus[k] \in Int
  BY DEF HttpStatus
<1>3. \A k \in DOMAIN HttpStatus : GrpcCode[k] \in Int
  BY DEF HttpStatus, GrpcCode, InvalidArgument, NotFound, AlreadyExists,
         ResourceExhausted, Internal
<1>4. \A op \in Ops : Success[op] \in Int
  BY DEF Success, Ops
<1>. HIDE DEF HttpStatus, GrpcCode, Success
<1>. QED BY <1>1, <1>2, <1>3, <1>4 DEF HttpTold, NewError, GrpcTold, OK, InvalidArgument

\* What the use case answers is an outcome.
LEMMA OutcomeType ==
  ASSUME NEW r \in Request, r.op \in Ops
  PROVE  Outcomes(r) \subseteq Failures \cup {"ok"}
BY DEF Outcomes, Errors, Failures, HttpStatus, Ops

LEMMA InitLifecycleInv == Init => LifecycleInv
<1>. SUFFICES ASSUME Init PROVE LifecycleInv
  OBVIOUS
<1>1. /\ Len(Hooks) = 5
      /\ \A k \in 1..5 : Hooks[k] \in Parts
  BY HookShape DEF Init
<1>2. TypeOK
  BY <1>1 DEF Init, TypeOK, NoCall, States, Steps, Failures, Request, OtherRequest, Nothing
<1>3. InOrder
  BY <1>1 DEF Init, InOrder, InPlace
<1>4. OnlyHooked /\ ServedByServers /\ EndsKnown
  BY DEF Init, OnlyHooked, ServedByServers, EndsKnown, Serving, NoCall
<1>. QED BY <1>2, <1>3, <1>4 DEF LifecycleInv

\* What Become does to the k-th hook, and that it disturbs no type.
LEMMA PartStep ==
  ASSUME LifecycleInv,
         NEW k \in 1..5, NEW state \in States, Become(Hooks[k], state),
         started' \in 0..5, UNCHANGED <<command, phase, call, why>>
  PROVE  /\ TypeOK' /\ OnlyHooked'
         /\ Hooks' = Hooks
         /\ part'[Hooks[k]] = state
         /\ \A h : h # Hooks[k] => part'[h] = part[h]
         /\ \A j \in 1..5 : j # k => part'[Hooks[j]] = part[Hooks[j]]
<1>1. /\ Len(Hooks) = 5
      /\ \A j \in 1..5 : Hooks[j] \in Parts
      /\ \A i, j \in 1..5 : Hooks[i] = Hooks[j] => i = j
  BY HookShape DEF LifecycleInv, TypeOK
<1>2. Hooks' = Hooks
  BY DEF Hooks
<1>3. part \in [Parts -> States] /\ part' = [part EXCEPT ![Hooks[k]] = state]
  BY DEF LifecycleInv, TypeOK, Become
<1>4. /\ part' \in [Parts -> States]
      /\ part'[Hooks[k]] = state
      /\ \A h : h # Hooks[k] => part'[h] = part[h]
      /\ \A j \in 1..5 : j # k => part'[Hooks[j]] = part[Hooks[j]]
  BY <1>1, <1>3
<1>5. TypeOK'
  BY <1>1, <1>2, <1>4 DEF LifecycleInv, TypeOK
<1>6. OnlyHooked'
  BY <1>1, <1>2, <1>4 DEF LifecycleInv, OnlyHooked
<1>. QED BY <1>2, <1>4, <1>5, <1>6

\* A call that arrives or ends leaves the hooks alone.
LEMMA CallStep ==
  ASSUME LifecycleInv, NEW c \in Calls,
         NEW entry \in [at : Servers \cup Background \cup {"nobody"}, req : Request,
                        step : Steps, outcome : Failures \cup {"ok", "none"},
                        told : Int],
         call' = [call EXCEPT ![c] = entry],
         entry.step = "handling" /\ entry.at \in Servers
           => part[entry.at] \in {"open", "draining"},
         UNCHANGED <<command, phase, started, part, why>>
  PROVE  LifecycleInv'
<1>1. Hooks' = Hooks
  BY DEF Hooks
<1>2. TypeOK'
  BY <1>1 DEF LifecycleInv, TypeOK
<1>3. InOrder' /\ OnlyHooked' /\ EndsKnown'
  BY <1>1 DEF LifecycleInv, InOrder, InPlace, OnlyHooked, EndsKnown, Unwound
<1>4. ServedByServers'
  BY DEF LifecycleInv, TypeOK, ServedByServers, Serving
<1>. QED BY <1>2, <1>3, <1>4 DEF LifecycleInv

\* A handler that returns is no longer served.
LEMMA FinishStep ==
  ASSUME LifecycleInv, NEW c \in Calls, NEW o \in Failures \cup {"ok"}, NEW t \in Int,
         Finish(c, o, t)
  PROVE  LifecycleInv'
<1>. DEFINE entry == [call[c] EXCEPT !.step = "done", !.outcome = o, !.told = t]
<1>1. call' = [call EXCEPT ![c] = entry]
  BY DEF Finish, LifecycleInv, TypeOK
<1>2. entry \in [at : Servers \cup Background \cup {"nobody"}, req : Request,
                 step : Steps, outcome : Failures \cup {"ok", "none"}, told : Int]
  BY DEF LifecycleInv, TypeOK, Steps
<1>3. entry.step = "done"
  BY DEF LifecycleInv, TypeOK
<1>. HIDE DEF entry
<1>. QED BY <1>1, <1>2, <1>3, CallStep DEF Finish

\* fx changes its phase, but never from unwinding to anything but the end.
LEMMA PhaseStep ==
  ASSUME LifecycleInv, UNCHANGED <<command, started, part, call>>,
         phase' \in {"starting", "serving", "rollback", "stopping", "exited"},
         Unwound => Unwound',
         why' \in {"none", "stopped", "start_failed", "timeout", "panic"}, EndsKnown'
  PROVE  LifecycleInv'
<1>1. Hooks' = Hooks
  BY DEF Hooks
<1>2. TypeOK'
  BY <1>1 DEF LifecycleInv, TypeOK
<1>3. InOrder' /\ OnlyHooked' /\ ServedByServers'
  BY <1>1 DEF LifecycleInv, InOrder, InPlace, OnlyHooked, ServedByServers, Serving
<1>. QED BY <1>2, <1>3 DEF LifecycleInv

LEMMA NextLifecycleInv == LifecycleInv /\ [Next]_vars => LifecycleInv'
<1>. SUFFICES ASSUME LifecycleInv, [Next]_vars PROVE LifecycleInv'
  OBVIOUS
<1>0. /\ Len(Hooks) = 5
      /\ \A k \in 1..5 : Hooks[k] \in Parts
      /\ \A j, k \in 1..5 : Hooks[j] = Hooks[k] => j = k
      /\ \A k \in 3..5 : Hooks[k] \in Servers \cup Background
  BY HookShape DEF LifecycleInv, TypeOK
<1>a. started \in 0..5 /\ InOrder
  BY <1>0 DEF LifecycleInv, TypeOK
<1>1. CASE StartHook
  <2>1. PICK state \in {"launched", "open"} : Become(Hooks[started + 1], state)
    BY <1>1 DEF StartHook
  <2>2. /\ started + 1 \in 1..5 /\ started' = started + 1 /\ started' \in 0..5
        /\ UNCHANGED <<command, phase, call, why>>
    BY <1>0, <1>a, <1>1 DEF StartHook
  <2>3. /\ TypeOK' /\ OnlyHooked' /\ Hooks' = Hooks
        /\ part'[Hooks[started + 1]] = state
        /\ \A h : h # Hooks[started + 1] => part'[h] = part[h]
        /\ \A j \in 1..5 : j # started + 1 => part'[Hooks[j]] = part[Hooks[j]]
    BY <2>1, <2>2, PartStep DEF States
  <2>4. InOrder'
    <3>. SUFFICES ASSUME NEW j \in 1..5 PROVE InPlace(j)'
      BY <1>0, <2>3 DEF InOrder
    <3>1. InPlace(j)
      BY <1>0, <1>a DEF InOrder
    <3>2. CASE j = started + 1
      BY <2>2, <2>3, <3>2 DEF InPlace, Live
    <3>3. CASE j # started + 1
      BY <1>1, <1>a, <2>2, <2>3, <3>1, <3>3 DEF InPlace, Unwound, StartHook
    <3>. QED BY <3>2, <3>3
  <2>5. part[Hooks[started + 1]] = "new"
    BY <1>0, <1>a, <1>1, <2>2 DEF InOrder, InPlace, Unwound, Live, StartHook
  <2>6. ServedByServers'
    BY <2>2, <2>3, <2>5 DEF LifecycleInv, ServedByServers, Serving
  <2>7. EndsKnown'
    BY <1>1 DEF StartHook, LifecycleInv, EndsKnown
  <2>. QED BY <2>3, <2>4, <2>6, <2>7 DEF LifecycleInv
<1>2. CASE StartFails \/ Started \/ Signal
  BY <1>2, PhaseStep DEF StartFails, Started, Signal, Unwound, LifecycleInv, TypeOK, EndsKnown
<1>3. ASSUME NEW s \in HttpServers, Listen(s)
      PROVE  LifecycleInv'
  <2>1. PICK state \in {"open", "failed"} : Become(s, state)
    BY <1>3 DEF Listen
  <2>2. s \in Parts /\ part[s] = "launched"
    BY <1>3 DEF Listen, Parts, Servers
  <2>3. PICK k \in 1..5 : Hooks[k] = s
    BY <1>0, <2>2 DEF LifecycleInv, OnlyHooked
  <2>4. started' \in 0..5 /\ UNCHANGED <<command, phase, started, call, why>>
    BY <1>a, <1>3 DEF Listen
  <2>5. /\ TypeOK' /\ OnlyHooked' /\ Hooks' = Hooks
        /\ part'[Hooks[k]] = state
        /\ \A h : h # Hooks[k] => part'[h] = part[h]
        /\ \A j \in 1..5 : j # k => part'[Hooks[j]] = part[Hooks[j]]
    BY <2>1, <2>3, <2>4, PartStep DEF States
  <2>6. k <= started
    BY <1>0, <1>a, <2>2, <2>3 DEF InOrder, InPlace
  <2>7. InOrder'
    <3>. SUFFICES ASSUME NEW j \in 1..5 PROVE InPlace(j)'
      BY <1>0, <2>5 DEF InOrder
    <3>1. InPlace(j)
      BY <1>0, <1>a DEF InOrder
    <3>2. CASE j = k
      BY <2>4, <2>5, <2>6, <3>2 DEF InPlace, Live
    <3>3. CASE j # k
      BY <2>4, <2>5, <3>1, <3>3 DEF InPlace, Unwound
    <3>. QED BY <3>2, <3>3
  <2>8. ServedByServers'
    BY <2>2, <2>3, <2>4, <2>5 DEF LifecycleInv, ServedByServers, Serving
  <2>9. EndsKnown'
    BY <2>4 DEF LifecycleInv, EndsKnown
  <2>. QED BY <2>5, <2>7, <2>8, <2>9 DEF LifecycleInv
<1>4. CASE Drain
  <2>1. /\ started \in 1..5 /\ started' \in 0..5 /\ Unwound
        /\ part[Hooks[started]] = "open" /\ Become(Hooks[started], "draining")
        /\ UNCHANGED <<command, phase, started, call, why>>
    BY <1>a, <1>4 DEF Drain, Top, Unwinding, Unwound
  <2>2. /\ TypeOK' /\ OnlyHooked' /\ Hooks' = Hooks
        /\ part'[Hooks[started]] = "draining"
        /\ \A h : h # Hooks[started] => part'[h] = part[h]
        /\ \A j \in 1..5 : j # started => part'[Hooks[j]] = part[Hooks[j]]
    BY <2>1, PartStep DEF States
  <2>3. InOrder'
    <3>. SUFFICES ASSUME NEW j \in 1..5 PROVE InPlace(j)'
      BY <1>0, <2>2 DEF InOrder
    <3>1. InPlace(j)
      BY <1>0, <1>a DEF InOrder
    <3>2. CASE j = started
      BY <2>1, <2>2, <3>2 DEF InPlace, Unwound
    <3>3. CASE j # started
      BY <2>1, <2>2, <3>1, <3>3 DEF InPlace, Unwound
    <3>. QED BY <3>2, <3>3
  <2>4. ServedByServers'
    BY <2>1, <2>2 DEF LifecycleInv, ServedByServers, Serving
  <2>5. EndsKnown'
    BY <2>1 DEF LifecycleInv, EndsKnown
  <2>. QED BY <2>2, <2>3, <2>4, <2>5 DEF LifecycleInv
<1>5. CASE StopServer \/ StopOther
  <2>1. /\ started \in 1..5 /\ started' = started - 1 /\ started' \in 0..5
        /\ phase \in {"rollback", "stopping"}
        /\ Become(Hooks[started], "closed")
        /\ UNCHANGED <<command, phase, call, why>>
    BY <1>a, <1>5 DEF StopServer, StopOther, Top, Unwinding
  <2>2. /\ TypeOK' /\ OnlyHooked' /\ Hooks' = Hooks
        /\ part'[Hooks[started]] = "closed"
        /\ \A h : h # Hooks[started] => part'[h] = part[h]
        /\ \A j \in 1..5 : j # started => part'[Hooks[j]] = part[Hooks[j]]
    BY <2>1, PartStep DEF States
  <2>3. InOrder'
    <3>. SUFFICES ASSUME NEW j \in 1..5 PROVE InPlace(j)'
      BY <1>0, <2>2 DEF InOrder
    <3>1. InPlace(j)
      BY <1>0, <1>a DEF InOrder
    <3>2. CASE j = started
      BY <2>1, <2>2, <3>2 DEF InPlace, Unwound
    <3>3. CASE j # started
      BY <1>a, <2>1, <2>2, <3>1, <3>3 DEF InPlace, Unwound
    <3>. QED BY <3>2, <3>3
  <2>4. \A c \in Calls : Serving(c) /\ call[c].at \in Servers => call[c].at # Hooks[started]
    BY <1>5 DEF StopServer, StopOther, Top, Idle
  <2>5. ServedByServers'
    BY <2>1, <2>2, <2>4 DEF LifecycleInv, ServedByServers, Serving
  <2>6. EndsKnown'
    BY <2>1 DEF LifecycleInv, EndsKnown
  <2>. QED BY <2>2, <2>3, <2>5, <2>6 DEF LifecycleInv
<1>6. CASE Exit \/ Expire
  BY <1>6, PhaseStep DEF Exit, Expire, End, Unwound, EndsKnown
<1>7. ASSUME NEW c \in Calls, NEW s \in Servers \cup Background, Arrive(c, s)
      PROVE  LifecycleInv'
  <2>1. PICK r \in RequestsAt(s) :
          call' = [call EXCEPT ![c] = [call[c] EXCEPT !.at = s, !.req = r, !.step = "handling"]]
    BY <1>7 DEF Arrive, LifecycleInv, TypeOK
  <2>2. r \in Request
    BY DEF RequestsAt, Request, OtherRequest, HttpRequest, GrpcRequest
  <2>. DEFINE entry == [call[c] EXCEPT !.at = s, !.req = r, !.step = "handling"]
  <2>3. entry \in [at : Servers \cup Background \cup {"nobody"}, req : Request,
                   step : Steps, outcome : Failures \cup {"ok", "none"}, told : Int]
    BY <2>2 DEF LifecycleInv, TypeOK, Steps
  <2>4. entry.at = s
    BY DEF LifecycleInv, TypeOK
  <2>5. s \in Servers => part[s] = "open"
    BY <1>7 DEF Arrive, Servers, HttpServers
  <2>. HIDE DEF entry
  <2>. QED BY <1>7, <2>1, <2>3, <2>4, <2>5, CallStep DEF Arrive, entry
<1>8. ASSUME NEW c \in Calls, Handle(c) \/ OtherCall(c)
      PROVE  LifecycleInv'
  <2>. DEFINE r == call[c].req
  <2>1. r \in Request /\ (IsAccountCall(c) <=> r.op \in Ops)
    BY DEF LifecycleInv, TypeOK, IsAccountCall
  <2>. HIDE DEF r
  <2>2. \A o \in Outcomes(r) : r.op \in Ops => o \in Failures \cup {"ok"}
    BY <2>1, OutcomeType
  <2>3. PICK o \in Failures \cup {"ok"}, t \in Int : Finish(c, o, t)
    <3>1. CASE HttpCall(c)
      BY <2>1, <2>2, <3>1, ToldType DEF HttpCall, r, Failures
    <3>2. CASE GrpcCall(c)
      BY <2>1, <2>2, <3>2, ToldType DEF GrpcCall, r, Failures
    <3>3. CASE ReadyCall(c)
      BY <3>3 DEF ReadyCall, Failures
    <3>4. CASE OtherCall(c)
      BY <3>4 DEF OtherCall, Nothing
    <3>. QED BY <1>8, <3>1, <3>2, <3>3, <3>4 DEF Handle
  <2>. QED BY <2>3, FinishStep
<1>9. ASSUME NEW c \in Calls, Panics(c)
      PROVE  LifecycleInv'
  <2>1. CASE End("panic")
    BY <1>9, <2>1, PhaseStep DEF Panics, End, Unwound, EndsKnown
  <2>2. ASSUME NEW t \in Int, Finish(c, "panic", t)
        PROVE  LifecycleInv'
    BY <2>2, FinishStep DEF Failures
  <2>. QED BY <1>9, <2>1, <2>2, ToldType DEF Panics, Nothing
<1>10. CASE UNCHANGED vars
  <2>1. UNCHANGED <<command, started, part, call>> /\ UNCHANGED phase /\ UNCHANGED why
    BY <1>10 DEF vars
  <2>. QED BY <2>1, PhaseStep DEF LifecycleInv, TypeOK, Unwound, EndsKnown
<1>. QED
  BY <1>1, <1>2, <1>3, <1>4, <1>5, <1>6, <1>7, <1>8, <1>9, <1>10 DEF Next

\* Hooks start in order and stop in reverse, what is not hooked stays as it was, and
\* no server that serves a call has been stopped: in every process.
THEOREM LifecycleInvariant == Spec => []LifecycleInv
<1>1. Init => LifecycleInv
  BY InitLifecycleInv
<1>2. LifecycleInv /\ [Next]_vars => LifecycleInv'
  BY NextLifecycleInv
<1>. QED BY <1>1, <1>2, PTL DEF Spec

\* Every process keeps the Redis client until its servers are idle: the client is
\* hook 2, the servers come after it, and a stopped server serves nobody.
THEOREM RedisOutlivesEveryCall == Spec => []RedisOutlivesCalls
<1>1. LifecycleInv => RedisOutlivesCalls
  <2>. SUFFICES ASSUME LifecycleInv, part["redis"] = "closed",
                       NEW c \in Calls, call[c].at \in Servers, Serving(c)
                PROVE  FALSE
    BY DEF RedisOutlivesCalls
  <2>1. /\ Len(Hooks) = 5
        /\ \A k \in 1..5 : Hooks[k] \in Parts
        /\ Hooks[1] = "tracing" /\ Hooks[2] = "redis"
        /\ started \in 0..5
    BY HookShape DEF LifecycleInv, TypeOK
  <2>2. started < 2
    BY <2>1 DEF LifecycleInv, InOrder, InPlace, Live
  <2>3. part[call[c].at] \in {"open", "draining"} /\ call[c].at \in Parts
    BY DEF LifecycleInv, ServedByServers, Parts
  <2>4. PICK k \in 1..5 : Hooks[k] = call[c].at
    BY <2>1, <2>3 DEF LifecycleInv, OnlyHooked
  <2>5. k > started
    BY <2>1, <2>2, <2>4 DEF Servers, HttpServers
  <2>. QED BY <2>1, <2>3, <2>4, <2>5 DEF LifecycleInv, InOrder, InPlace, Live
<1>. QED BY <1>1, LifecycleInvariant, PTL

\* A process that ends by itself has stopped all it started and owes no answer.
THEOREM EveryExitIsClean == Spec => []CleanExit
<1>1. LifecycleInv => CleanExit
  <2>. SUFFICES ASSUME LifecycleInv, why \in {"stopped", "start_failed"}
                PROVE  /\ \A c \in Calls : call[c].at \in Servers => ~Serving(c)
                       /\ \A h \in Parts : part[h] \in {"new", "closed"}
    BY DEF CleanExit
  <2>1. Len(Hooks) = 5 /\ started = 0
    BY HookShape DEF LifecycleInv, TypeOK, EndsKnown
  <2>2. \A k \in 1..5 : part[Hooks[k]] \in {"new", "closed"}
    BY <2>1 DEF LifecycleInv, InOrder, InPlace, Live
  <2>3. \A h \in Parts : part[h] \in {"new", "closed"}
    BY <2>1, <2>2 DEF LifecycleInv, OnlyHooked
  <2>4. \A c \in Calls : call[c].at \in Servers => ~Serving(c)
    BY <2>3 DEF LifecycleInv, ServedByServers, Parts
  <2>. QED BY <2>3, <2>4
<1>. QED BY <1>1, LifecycleInvariant, PTL
-----------------------------------------------------------------------------
(* What callers are told. *)

\* Account calls are served by the API and by gRPC, and told what those render.
ToldAt(c) ==
  IsAccountCall(c) /\ call[c].step # "none" =>
    /\ call[c].at \in {"api", "grpc"}
    /\ call[c].step = "done" =>
         call[c].told = IF call[c].at = "api" THEN HttpTold(call[c].req.op, call[c].outcome)
                                              ELSE GrpcTold(call[c].outcome)

Told == \A c \in Calls : ToldAt(c)

LEMMA NextTold == LifecycleInv /\ Told /\ [Next]_vars => Told'
<1>. SUFFICES ASSUME LifecycleInv, Told, [Next]_vars, NEW d \in Calls PROVE ToldAt(d)'
  BY DEF Told
<1>. USE DEF LifecycleInv, TypeOK
<1>1. CASE UNCHANGED call
  BY <1>1 DEF Told, ToldAt, IsAccountCall
<1>2. ASSUME NEW c \in Calls, NEW s \in Servers \cup Background, Arrive(c, s)
      PROVE  ToldAt(d)'
  <2>1. CASE c # d
    BY <1>2, <2>1 DEF Arrive, Told, ToldAt, IsAccountCall
  <2>2. CASE c = d
    <3>1. PICK r \in RequestsAt(s) :
            call'[d].req = r /\ call'[d].at = s /\ call'[d].step = "handling"
      BY <1>2, <2>2 DEF Arrive
    <3>2. r.op \in Ops => s \in {"api", "grpc"}
      BY DEF RequestsAt, Ops, Servers, HttpServers, Background
    <3>. QED BY <3>1, <3>2 DEF ToldAt, IsAccountCall
  <2>. QED BY <2>1, <2>2
<1>3. ASSUME NEW c \in Calls, NEW o, NEW t, Finish(c, o, t),
             IsAccountCall(c) => t = IF call[c].at = "api" THEN HttpTold(call[c].req.op, o)
                                                          ELSE GrpcTold(o)
      PROVE  ToldAt(d)'
  <2>1. CASE c # d
    BY <1>3, <2>1 DEF Finish, Told, ToldAt, IsAccountCall
  <2>2. CASE c = d
    <3>1. /\ call'[d].req = call[d].req /\ call'[d].at = call[d].at
          /\ call'[d].step = "done" /\ call'[d].outcome = o /\ call'[d].told = t
          /\ call[d].step = "handling"
      BY <1>3, <2>2 DEF Finish, Serving
    <3>. QED BY <1>3, <2>2, <3>1 DEF Told, ToldAt, IsAccountCall
  <2>. QED BY <2>1, <2>2
<1>4. ASSUME NEW c \in Calls, HttpCall(c) \/ GrpcCall(c)
      PROVE  ToldAt(d)'
  BY <1>3, <1>4 DEF HttpCall, GrpcCall
<1>5. ASSUME NEW c \in Calls, ReadyCall(c) \/ OtherCall(c)
      PROVE  ToldAt(d)'
  <2>1. ~IsAccountCall(c)
    BY <1>5 DEF ReadyCall, OtherCall, IsAccountCall, Ops
  <2>. QED BY <1>3, <1>5, <2>1 DEF ReadyCall, OtherCall
<1>6. ASSUME NEW c \in Calls, Panics(c)
      PROVE  ToldAt(d)'
  <2>1. IsAccountCall(c) => call[c].at \in {"api", "grpc"}
    BY <1>6 DEF Panics, Serving, Told, ToldAt
  <2>. QED BY <1>1, <1>3, <1>6, <2>1 DEF Panics, End
<1>. QED
  BY <1>1, <1>2, <1>4, <1>5, <1>6
  DEF Next, vars, Handle, StartHook, StartFails, Started, Signal, Drain, StopServer, StopOther,
      Exit, Expire, End, Listen

\* An account call, once taken, is served by the API or by gRPC, and told what that one
\* renders: the lemma behind both results on errors.
THEOREM ToldInvariance == Spec => [](LifecycleInv /\ Told)
<1>1. Init => Told
  BY DEF Init, Told, ToldAt, NoCall
<1>. QED BY <1>1, NextTold, LifecycleInvariant, PTL DEF Spec

\* What an error is told as, in either transport, and in both.
LEMMA ErrorsTold ==
  ASSUME NEW o, o # "ok", NEW op
  PROVE  /\ HttpTold(op, o) \in {400, 404, 409, 429, 500}
         /\ GrpcTold(o) \in {3, 5, 6, 8, 13}
         /\ HttpTold(op, o) = Usual[GrpcTold(o)]
<1>. USE DEF InvalidArgument, NotFound, AlreadyExists, ResourceExhausted, Internal
<1>1. \A k \in DOMAIN HttpStatus :
        /\ HttpStatus[k] \in {400, 404, 409, 429, 500}
        /\ GrpcCode[k] \in {3, 5, 6, 8, 13}
        /\ HttpStatus[k] = Usual[GrpcCode[k]]
  BY DEF HttpStatus, GrpcCode, Usual
<1>2. \A e : FromError(e) \in DOMAIN HttpStatus
  BY DEF FromError, HttpStatus
<1>3. FromError("invalid_request") = "invalid_request" /\ GrpcCode["invalid_request"] = 3
  BY DEF FromError, HttpStatus, GrpcCode
<1>. HIDE DEF HttpStatus, GrpcCode, Usual
<1>. QED BY <1>1, <1>2, <1>3 DEF HttpTold, NewError, GrpcTold

\* A caller is told success exactly when the use case has succeeded.
THEOREM EveryFailureIsTold == Spec => []FailureTold
<1>1. LifecycleInv /\ Told => FailureTold
  <2>. SUFFICES ASSUME LifecycleInv, Told, NEW c \in Calls, call[c].step = "done",
                       IsAccountCall(c)
                PROVE  call[c].outcome = "ok" <=> call[c].told \in {OK, 200, 201, 204}
    BY DEF FailureTold
  <2>1. /\ call[c].req.op \in Ops
        /\ call[c].told = IF call[c].at = "api" THEN HttpTold(call[c].req.op, call[c].outcome)
                                                ELSE GrpcTold(call[c].outcome)
    BY DEF Told, ToldAt, IsAccountCall
  <2>2. CASE call[c].outcome = "ok"
    BY <2>1, <2>2 DEF HttpTold, GrpcTold, Success, Ops, OK
  <2>3. CASE call[c].outcome # "ok"
    BY <2>1, <2>3, ErrorsTold DEF OK
  <2>. QED BY <2>2, <2>3
<1>. QED BY <1>1, ToldInvariance, PTL

\* HTTP and gRPC tell the same of the same failure.
THEOREM TransportsAlwaysAgree == Spec => []TransportsAgree
<1>1. LifecycleInv /\ Told => TransportsAgree
  BY ErrorsTold DEF Told, ToldAt, TransportsAgree
<1>. QED BY <1>1, ToldInvariance, PTL
-----------------------------------------------------------------------------
(* The boot. *)

\* Once built, a process that boots is the process of the lifecycle; before, none of
\* its hooks runs: every result above holds of it.
THEOREM BootsIntoLifecycle == BootSpec => Spec
<1>1. BootInit => Init
  BY DEF BootInit
<1>2. [BootNext]_allVars => [Next]_vars
  BY DEF BootNext, allVars
<1>. QED BY <1>1, <1>2, PTL DEF BootSpec, Spec

\* The processes that boot keep the invariant among themselves.
LEMMA BootStepInv == BootInv /\ BootStep /\ UNCHANGED vars => BootInv'
<1>. SUFFICES ASSUME BootInv, BootStep, UNCHANGED vars PROVE BootInv'
  OBVIOUS
<1>. USE DEF BootInv, BootTypeOK, Booting, Failed
<1>1. UNCHANGED started /\ UNCHANGED call
  BY DEF vars
<1>2. CASE Configure \/ Open
  BY <1>1, <1>2 DEF Configure, Open
<1>3. CASE Migrate
  <2>1. CASE RefuseDirty \/ RefuseVersion \/ NoChange
    BY <1>1, <1>3, <2>1 DEF Migrate, Turn, RefuseDirty, RefuseVersion, NoChange
  <2>2. CASE Mark
    BY <1>1, <1>3, <2>2 DEF Migrate, Turn, Mark
  <2>. QED BY <1>3, <2>1, <2>2 DEF Migrate
<1>4. CASE LockTimeout \/ Restart
  BY <1>1, <1>4 DEF LockTimeout, Restart
<1>5. CASE Apply
  BY <1>1, <1>5 DEF Apply
<1>6. CASE Killed
  BY <1>1, <1>6 DEF Killed
<1>7. CASE OtherMarks \/ OtherEnds
  BY <1>1, <1>7 DEF OtherMarks, OtherEnds
<1>. QED BY <1>2, <1>3, <1>4, <1>5, <1>6, <1>7 DEF BootStep

LEMMA NextBootInv == BootInv /\ [BootNext]_allVars => BootInv'
<1>. SUFFICES ASSUME BootInv, [BootNext]_allVars PROVE BootInv'
  OBVIOUS
<1>1. CASE BootStep /\ UNCHANGED vars
  BY <1>1, BootStepInv
<1>2. CASE boot = "built" /\ UNCHANGED bootVars
  BY <1>2 DEF BootInv, BootTypeOK, bootVars
<1>3. CASE UNCHANGED allVars
  BY <1>3 DEF BootInv, BootTypeOK, bootVars, vars, allVars
<1>. QED BY <1>1, <1>2, <1>3 DEF BootNext

\* Whoever else boots on the database and whoever is killed, the lock is held in the
\* middle of a migration only, and a process that was to migrate has its schema.
THEOREM BootInvariance == BootSpec => []BootInv
<1>1. BootInit => BootInv
  BY DEF BootInit, Init, NoCall, BootInv, BootTypeOK, Booting, Failed
<1>. QED BY <1>1, NextBootInv, PTL DEF BootSpec

\* Nobody is served by a process that was to migrate and has no schema.
THEOREM EveryCallFindsItsSchema == BootSpec => []ServesMigrated
<1>. DEFINE Waits == boot # "built" => phase = "starting"
<1>1. BootInit => Waits
  BY DEF BootInit, Init
<1>2. BootInv /\ Waits /\ [BootNext]_allVars => Waits'
  <2>. SUFFICES ASSUME BootInv, Waits, [BootNext]_allVars PROVE Waits'
    OBVIOUS
  <2>1. CASE BootStep /\ UNCHANGED vars
    <3>1. boot = "built" => boot' = "built"
      BY <2>1 DEF BootStep, Configure, Open, Migrate, Turn, RefuseDirty, RefuseVersion,
         NoChange, Mark, LockTimeout, Apply, Killed, Restart, OtherMarks, OtherEnds,
         Booting, Failed
    <3>. QED BY <2>1, <3>1 DEF vars
  <2>2. CASE boot = "built" /\ UNCHANGED bootVars
    BY <2>2 DEF bootVars
  <2>3. CASE UNCHANGED allVars
    BY <2>3 DEF allVars, bootVars, vars
  <2>. QED BY <2>1, <2>2, <2>3 DEF BootNext
<1>3. BootInv /\ Waits => ServesMigrated
  BY DEF BootInv, ServesMigrated
<1>. QED BY <1>1, <1>2, <1>3, BootInvariance, PTL DEF BootSpec

\* A process keeps what the lifecycle promises through every boot, failed boot and
\* restart: its callers are told the truth, and it loses nothing they still need.
THEOREM BootedProcessesKeepTheirPromises ==
  BootSpec => [](LifecycleInv /\ RedisOutlivesCalls /\ CleanExit /\ FailureTold /\ TransportsAgree)
BY BootsIntoLifecycle, LifecycleInvariant, RedisOutlivesEveryCall, EveryExitIsClean,
   EveryFailureIsTold, TransportsAlwaysAgree, PTL

\* No boot and no restart clears the mark of a migration that died.
THEOREM MarksAreForGood == BootSpec => MarkStays
<1>1. BootInv /\ [BootNext]_allVars
        => [schema = "dirty" /\ lock = "free"
              => schema' = "dirty" /\ ~(migrate /\ boot' = "built")]_allVars
  <2>. SUFFICES ASSUME BootInv, BootNext, schema = "dirty", lock = "free"
                PROVE  schema' = "dirty" /\ ~(migrate /\ boot' = "built")
    OBVIOUS
  <2>1. boot # "applying" /\ ~(boot = "built" /\ migrate)
    BY DEF BootInv
  <2>2. CASE BootStep
    BY <2>1, <2>2 DEF BootStep, Configure, Open, Migrate, Turn, RefuseDirty, RefuseVersion,
       NoChange, Mark, LockTimeout, Apply, Killed, Restart, OtherMarks, OtherEnds,
       Booting, Failed
  <2>3. CASE boot = "built" /\ UNCHANGED bootVars
    BY <2>1, <2>3 DEF bootVars
  <2>. QED BY <2>2, <2>3 DEF BootNext
<1>. QED BY <1>1, BootInvariance, PTL DEF BootSpec, MarkStays
=============================================================================
