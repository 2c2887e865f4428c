----------------------------- MODULE Deployment -----------------------------
(***************************************************************************)
(* PathAuthorityEvaluator (distributed.cpp) and the Coordinator it works   *)
(* with: an evaluator decides on its own runtime, then holds its mutex for *)
(* a request and its answer, on a connection that may break, to a process  *)
(* that may crash.                                                         *)
(*                                                                         *)
(* The evaluator's runtime is what exact replay makes of it: the last      *)
(* decision on each path.  Evidence is what makes the next one differ.     *)
(***************************************************************************)
EXTENDS Coordinator

CONSTANTS
    Caller,         \* the threads that call evaluators
    WorkerOf,       \* WorkerOf[t]: the evaluator thread t calls
    PublisherOf,    \* PublisherOf[w]: the publisher it is configured for
    NoCaller,
    MaxConnects     \* how often an evaluator connects

Broken == "broken"

ASSUME DeploymentAssumption ==
    /\ WorkerOf \in [Caller -> Worker] /\ PublisherOf \in [Worker -> Publisher]
    /\ NoCaller \notin Caller /\ MaxConnects \in Nat
    /\ Broken \notin Connection \cup {NoConnection}

VARIABLES
    evaluators,     \* each worker's evaluator
    calls,          \* the call each thread is in
    requests,       \* the frame on its way to the coordinator, by connection
    responses       \* and the frame on its way back

evaluator == <<evaluators, calls, requests, responses>>
system == <<vars, evaluator>>

NoFrame == <<>>
Dropped == [kind |-> "dropped"]
NoCall == [pc |-> "idle", request |-> NoRequest]

\* link: what socket is connected to; holder: the thread that holds mutex.
Disconnected ==
    [link |-> NoConnection, registered |-> FALSE, epoch |-> 1, holder |-> NoCaller,
     decided |-> [p \in Path |-> NoDigest], connects |-> 0]

Evaluator(t) == evaluators[WorkerOf[t]]
Link(t) == Evaluator(t).link

\* Mutant: exchanges are not serialized.
NeverLocked(t) == TRUE

Unlocked(t) == Evaluator(t).holder = NoCaller

SetEvaluator(t, fields) ==
    evaluators' = [evaluators EXCEPT ![WorkerOf[t]] =
        [f \in DOMAIN Disconnected |-> IF f \in DOMAIN fields THEN fields[f] ELSE @[f]]]

Return(t) == calls' = [calls EXCEPT ![t] = NoCall]

\* envelope(): an evaluator registers and decides in one name.
Own(t) == <<PublisherOf[WorkerOf[t]], WorkerOf[t]>>

\* Requests that decide nothing: QUERY, WORKERS and HEARTBEAT are one.
Asking(t, kind) == [kind |-> kind, publisher |-> Own(t)[1], worker |-> Own(t)[2]]

-----------------------------------------------------------------------------
(* The evaluator.                                                          *)

\* connect(); a socket that is broken is a socket still, until disconnect().
CanConnect(t) ==
    /\ calls[t].pc = "idle" /\ Unlocked(t)
    /\ Link(t) = NoConnection
    /\ Evaluator(t).connects < MaxConnects

Connect(t, c) ==
    /\ CanConnect(t)
    /\ Accept(c)
    /\ SetEvaluator(t, [link |-> c, connects |-> Evaluator(t).connects + 1])
    /\ UNCHANGED <<calls, requests, responses>>

\* accept_loop() closes a client for which there is no slot.
ConnectInVain(t) ==
    /\ CanConnect(t)
    /\ status = "running" /\ \A c \in Connection : connections[c] # Free
    /\ SetEvaluator(t, [link |-> Broken, connects |-> Evaluator(t).connects + 1])
    /\ UNCHANGED <<vars, calls, requests, responses>>

\* Mutant: the evaluator believes in its registration on the connection before.
HangUpOnly(t) ==
    /\ calls[t].pc = "idle" /\ Unlocked(t)
    /\ Link(t) # NoConnection
    /\ IF Link(t) \in Connection THEN Disconnect(Link(t)) ELSE UNCHANGED vars
    /\ SetEvaluator(t, [link |-> NoConnection])
    /\ UNCHANGED <<calls, requests, responses>>

\* disconnect()
HangUp(t) ==
    /\ calls[t].pc = "idle" /\ Unlocked(t)
    /\ Link(t) # NoConnection
    /\ IF Link(t) \in Connection THEN Disconnect(Link(t)) ELSE UNCHANGED vars
    /\ SetEvaluator(t, [link |-> NoConnection, registered |-> FALSE])
    /\ UNCHANGED <<calls, requests, responses>>

\* publish(), also for revalidate(), before the mutex: evaluate(), whose replay is
\* IDEMPOTENT with the state of the record.
Evaluate(t) ==
    /\ calls[t].pc = "idle"
    /\ \E p \in Path, outcome \in Publishes :
       LET decision == <<state_for_outcome(outcome), Evaluator(t).epoch>>
           replayed == Evaluator(t).decided[p] = decision
           request == RequestOf("publish", Own(t), p, outcome, Runtime!NoExpectation,
                                Evaluator(t).epoch)
       IN  /\ calls' = [calls EXCEPT ![t] =
                  [pc |-> "decided",
                   request |-> IF replayed THEN AsReplay(request) ELSE request]]
           /\ SetEvaluator(t, [decided |-> [Evaluator(t).decided EXCEPT ![p] = decision]])
    /\ UNCHANGED <<vars, requests, responses>>

\* Requests that need a connection, or a registration too.
Unable(t, request) ==
    \/ Link(t) = NoConnection
    \/ request.kind \in {"publish", "revoke"} /\ ~Evaluator(t).registered

\* The mutex is taken, and the request sent on a socket that may be broken.
Send(t, request) ==
    /\ Unlocked(t)
    /\ ~Unable(t, request)
    /\ SetEvaluator(t, [holder |-> t])
    /\ calls' = [calls EXCEPT ![t] = [pc |-> "sent", request |-> request]]
    /\ requests' = IF Link(t) = Broken THEN requests ELSE [requests EXCEPT ![Link(t)] = request]
    /\ UNCHANGED <<vars, responses>>

Publish(t) == calls[t].pc = "decided" /\ Send(t, calls[t].request)

\* "evaluator is not registered with a coordinator"
GiveUp(t) ==
    /\ calls[t].pc = "decided" /\ Unlocked(t)
    /\ Unable(t, calls[t].request)
    /\ Return(t)
    /\ UNCHANGED <<vars, evaluators, requests, responses>>

RegisterWorker(t) == calls[t].pc = "idle" /\ Send(t, Asking(t, "register"))
Query(t) == calls[t].pc = "idle" /\ Send(t, Asking(t, "query"))

RevokePath(t) ==
    /\ calls[t].pc = "idle"
    /\ \E p \in Path :
          Send(t, RequestOf("revoke", Own(t), p, "REVOKED", Runtime!NoExpectation,
                            Evaluator(t).epoch))

\* exchange() ends with the answer.  A registration that is accepted brings the
\* coordinator's epoch.
Answered(t) ==
    /\ calls[t].pc = "sent" /\ Link(t) \in Connection
    /\ responses[Link(t)] \notin {NoFrame, Dropped}
    /\ LET response == responses[Link(t)] IN
       IF calls[t].request.kind = "register"
       THEN SetEvaluator(t, [holder |-> NoCaller, registered |-> response.accepted,
                             epoch |-> IF response.accepted THEN response.epoch
                                                            ELSE Evaluator(t).epoch])
       ELSE SetEvaluator(t, [holder |-> NoCaller])
    /\ responses' = [responses EXCEPT ![Link(t)] = NoFrame]
    /\ Return(t)
    /\ UNCHANGED <<vars, requests>>

\* exchange() fails: set_error() locks the mutex its caller holds, which is undefined;
\* the thread waits for itself, or the lock counts.
Fail(t) ==
    /\ calls[t].pc = "sent" /\ Link(t) = Broken
    /\ \/ calls' = [calls EXCEPT ![t].pc = "stuck"] /\ UNCHANGED evaluators
       \/ Return(t) /\ SetEvaluator(t, [holder |-> NoCaller])
    /\ UNCHANGED <<vars, requests, responses>>

-----------------------------------------------------------------------------
(* The coordinator's side of a connection.                                 *)

Respond(c, accepted) ==
    responses' = [responses EXCEPT ![c] = [accepted |-> accepted, epoch |-> epoch]]

Take(c) == requests' = [requests EXCEPT ![c] = NoFrame]

Arrived(c) == requests[c] \notin {NoFrame, Dropped}

\* Mutant: a worker that is fenced may register again.
ServeFenced(c) ==
    /\ Receives(c) /\ Arrived(c)
    /\ LET request == requests[c] IN
       \/ /\ request.kind = "register"
          /\ workers' = [workers EXCEPT ![request.worker] = c]
          /\ publishers' = [publishers EXCEPT ![request.worker] = request.publisher]
          /\ Respond(c, TRUE)
          /\ UNCHANGED <<runtime, process, connections, fenced, disk>>
       \/ request.kind # "register" /\ Respond(c, FALSE) /\ UNCHANGED vars
    /\ Take(c)
    /\ UNCHANGED <<evaluators, calls>>

\* A registration or a query is answered at once, and so is what a fenced worker asks.
ServeNow(c) ==
    /\ Receives(c) /\ Arrived(c)
    /\ LET request == requests[c] IN
       \/ /\ request.kind = "register"
          /\ Register(c, request.publisher, request.worker) /\ Respond(c, TRUE)
       \/ /\ request.kind = "register" /\ ~CanRegister(request.worker)
          /\ Respond(c, FALSE) /\ UNCHANGED vars
       \/ request.kind = "query" /\ Respond(c, TRUE) /\ UNCHANGED vars
       \/ /\ request.kind \in {"publish", "revoke"} /\ request.worker \in fenced
          /\ Respond(c, FALSE) /\ UNCHANGED vars
    /\ Take(c)
    /\ UNCHANGED <<evaluators, calls>>

Serve(c) ==
    /\ Arrived(c)
    /\ requests[c].kind \in {"publish", "revoke"}
    /\ Receive(c, requests[c])
    /\ Take(c)
    /\ UNCHANGED <<evaluators, calls, responses>>

\* Evaluators whose socket the coordinator has closed.
Cut(closed) ==
    evaluators' = [w \in Worker |->
        [evaluators[w] EXCEPT !.link = IF @ \in closed THEN Broken ELSE @]]

\* Mutant: a request that is refused gets no answer.
HandleStepQuietly(c) ==
    /\ Handle(c)
    /\ IF connections'[c].pc = "receive" /\ connections[c].answer # NoAnswer
       THEN Respond(c, TRUE)
       ELSE IF connections'[c].socket = "finished"
       THEN responses' = [responses EXCEPT ![c] = NoFrame]
       ELSE UNCHANGED responses
    /\ IF connections'[c].socket = "finished"
       THEN Cut({c}) /\ Take(c)
       ELSE UNCHANGED <<evaluators, requests>>
    /\ UNCHANGED calls

\* A handler's next step; it answers when it is done with a client's request, and
\* closes the socket when it ends.
HandleStep(c) ==
    /\ Handle(c)
    /\ IF connections'[c].pc = "receive" /\ connections[c].pc \in {"registered", "commit"}
       THEN Respond(c, FALSE)
       ELSE IF connections'[c].pc = "receive" /\ connections[c].answer # NoAnswer
       THEN Respond(c, TRUE)
       ELSE IF connections'[c].socket = "finished"
       THEN responses' = [responses EXCEPT ![c] = NoFrame]
       ELSE UNCHANGED responses
    /\ IF connections'[c].socket = "finished"
       THEN Cut({c}) /\ Take(c)
       ELSE UNCHANGED <<evaluators, requests>>
    /\ UNCHANGED calls

-----------------------------------------------------------------------------
(* Faults.                                                                 *)

\* The network drops a connection; the evaluator finds out when it uses it.
Break(c) ==
    /\ Disconnect(c)
    /\ Cut({c})
    /\ requests' = [requests EXCEPT ![c] = NoFrame]
    /\ responses' = [responses EXCEPT ![c] = NoFrame]
    /\ UNCHANGED calls

\* What ends every connection at once: a crash, or stop(), which lets the handlers finish.
EveryBreak ==
    /\ Cut(Connection)
    /\ requests' = [c \in Connection |-> NoFrame]
    /\ responses' = [c \in Connection |-> NoFrame]
    /\ UNCHANGED calls

CoordinatorCrash == Crash /\ EveryBreak
CoordinatorStop == Stop /\ EveryBreak

\* receive_frame() forgets what it has of a frame when nothing comes for half a second,
\* and a rest too short for a header is never looked at: the frame is gone.
Lose(c) ==
    /\ \/ Arrived(c) /\ requests' = [requests EXCEPT ![c] = Dropped] /\ UNCHANGED responses
       \/ /\ responses[c] \notin {NoFrame, Dropped}
          /\ responses' = [responses EXCEPT ![c] = Dropped] /\ UNCHANGED requests
    /\ UNCHANGED <<vars, evaluators, calls>>

-----------------------------------------------------------------------------
SystemInit ==
    /\ Init
    /\ evaluators = [w \in Worker |-> Disconnected]
    /\ calls = [t \in Caller |-> NoCall]
    /\ requests = [c \in Connection |-> NoFrame]
    /\ responses = [c \in Connection |-> NoFrame]

\* A call goes on.
Continue(t) == Publish(t) \/ GiveUp(t) \/ Answered(t) \/ Fail(t)

Call(t) ==
    \/ \E c \in Connection : Connect(t, c)
    \/ ConnectInVain(t)
    \/ HangUp(t)
    \/ Evaluate(t) \/ RegisterWorker(t) \/ RevokePath(t) \/ Query(t)

CoordinatorStep(c) == ServeNow(c) \/ Serve(c) \/ HandleStep(c)

SystemNext ==
    \/ \E t \in Caller : Call(t) \/ Continue(t)
    \/ \E c \in Connection :
          \/ CoordinatorStep(c)
          \/ Reap(c) /\ UNCHANGED evaluator
          \/ Break(c) \/ Lose(c)
    \/ Start /\ UNCHANGED evaluator
    \/ CoordinatorCrash \/ CoordinatorStop

SystemSpec == SystemInit /\ [][SystemNext]_system

\* Threads run, and a mutex that is free again and again is taken by each that waits.
\* Nothing makes a caller begin, a fault happen, or the coordinator start again.
FairSystemSpec ==
    /\ SystemSpec
    /\ \A t \in Caller : SF_system(Continue(t))
    /\ \A c \in Connection :
          /\ WF_system(CoordinatorStep(c))
          /\ SF_system(Reap(c) /\ UNCHANGED evaluator)

-----------------------------------------------------------------------------
(* Safety.                                                                 *)

EvaluatorType ==
    [link : Connection \cup {NoConnection, Broken}, registered : BOOLEAN,
     epoch : 1..MaxEpoch, holder : Caller \cup {NoCaller},
     decided : [Path -> {NoDigest} \cup (AuthorityState \X (1..MaxEpoch))],
     connects : 0..MaxConnects]

AskType == [kind : {"register", "query"}, publisher : Publisher, worker : Worker]
CallType == [pc : {"idle", "decided", "sent", "stuck"},
             request : {NoRequest} \cup AskType \cup RequestType]
ResponseType == [accepted : BOOLEAN, epoch : 1..MaxEpoch]

\* The type invariant, of what is the evaluators', and of the coordinator's part.
SystemTypeOK ==
    /\ TypeOK
    /\ evaluators \in [Worker -> EvaluatorType]
    /\ calls \in [Caller -> CallType]
    /\ requests \in [Connection -> {NoFrame, Dropped} \cup AskType \cup RequestType]
    /\ responses \in [Connection -> {NoFrame, Dropped} \cup ResponseType]
    /\ \A c \in Connection : requests[c] # NoFrame => status = "running"

Connected(w) ==
    /\ evaluators[w].link \in Connection
    /\ connections[evaluators[w].link].socket = "open"

\* An evaluator that believes it is registered, on a connection that stands, is the
\* coordinator's: registered there, not fenced, and of its epoch, so that what it
\* publishes is not refused for who it is.
BeliefIsTrue ==
    \A w \in Worker :
        evaluators[w].registered /\ Connected(w) =>
            /\ workers[w] = evaluators[w].link
            /\ w \notin fenced
            /\ evaluators[w].epoch = epoch

\* A frame is for the one thread that holds the mutex of the evaluator at the other
\* end: an answer never reaches another call than the one that asked.
FramesHaveAnOwner ==
    \A c \in Connection :
        requests[c] # NoFrame \/ (responses[c] # NoFrame /\ connections[c].socket = "open") =>
            /\ \E t \in Caller :
                  /\ Link(t) = c /\ Evaluator(t).holder = t /\ calls[t].pc = "sent"
            /\ requests[c] = NoFrame \/ responses[c] = NoFrame

\* With real evaluators at the other end of its connections, and with the faults, the
\* coordinator does nothing that its own specification does not say, whose clients are
\* anyone: a fenced worker is not registered again, no request is served twice, and
\* its memory changes by its handlers' steps alone.
SystemIsCoordinator == Spec

-----------------------------------------------------------------------------
(* Replays.                                                                *)

\* "Replaying the same attempt with the same semantic input returns `IDEMPOTENT`": what
\* a registered worker of this epoch decided before is not refused for being a replay.
ReplayIsAccepted ==
    [][\A c \in Connection :
          /\ At(c, "registered") /\ Request(c).kind = "publish"
          /\ RegisteredHere(c) /\ Request(c).epoch = epoch
          /\ ~Runtime!Withdrawn(Request(c).path)
          => connections'[c].pc # "receive" \/ status' = "down"]_system

-----------------------------------------------------------------------------
(* Liveness.                                                               *)

\* A call on an evaluator returns, unless a call on it waits for a frame that is gone
\* or for a mutex it holds itself.
CallsReturn ==
    \A t \in Caller :
        calls[t].pc # "idle" ~>
            \/ calls[t].pc = "idle"
            \/ \E u \in Caller :
                  /\ WorkerOf[u] = WorkerOf[t]
                  /\ \/ calls[u].pc = "stuck"
                     \/ Link(u) \in Connection /\ Dropped \in {requests[Link(u)], responses[Link(u)]}
=============================================================================
