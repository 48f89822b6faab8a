----------------------------- MODULE Lifecycle -----------------------------
(***************************************************************************)
(* Client.New of src/unnamed/part_000 as one CLI invocation: the stages    *)
(* Create, Build, Push, Deploy, Route run in order on the main flow, and   *)
(* the goroutines the operations start run beside it:                      *)
(*   NewWatcher     New's goroutine waiting on ctx.Done()                  *)
(*   DeployWatcher  Deploy's goroutine waiting on ctx.Done()               *)
(*   Heartbeat      printBuildActivity's ticker loop, started by Build     *)
(*                  when not verbose                                       *)
(* All of them talk to the one shared ProgressListener. The caller calls   *)
(* the listener's Done when New returns (the deferred call the interface   *)
(* asks for), and the context may be cancelled at any moment.              *)
(* Collaborator outcomes are chosen nondeterministically; what the stages  *)
(* do to the project root is the business of FuncClient.                   *)
(***************************************************************************)
EXTENDS Naturals, Sequences, FiniteSets

CONSTANTS
    Verbose,       \* the Client was created WithVerbose(true)
    NoopDeployer,  \* no Deployer was provided: noopDeployer is used
    MaxTicks       \* bound on the heartbeat ticker's firings

Stages     == <<"Create", "Build", "Push", "Deploy", "Route">>
Goroutines == {"NewWatcher", "DeployWatcher", "Heartbeat"}

VARIABLES
    pc,         \* where New's main flow is
    cancelled,  \* the context is done
    gs,         \* [Goroutines -> "none" | "waiting" | "exited"]
    ticks,      \* heartbeat firings so far
    listener,   \* what the shared ProgressListener has been told
    deployed,   \* the Status the Deployer returned, "none" before
    stageLog,   \* history: <<stage, succeeded>> of every stage run, in order
    result      \* what New returned: "none", "ok", "err"

vars == <<pc, cancelled, gs, ticks, listener, deployed, stageLog, result>>

\* DeploymentResult.Status.
Statuses == {"Failed", "Deployed", "Updated"}

\* What the Deployer may return: noopDeployer's zero DeploymentResult with a
\* nil error, or, for a real one, a failure with its error or a success.
DeployOutcomes ==
    IF NoopDeployer
    THEN {[status |-> "Failed", err |-> FALSE]}
    ELSE {[status |-> "Failed", err |-> TRUE],
          [status |-> "Deployed", err |-> FALSE],
          [status |-> "Updated", err |-> FALSE]}

\* n calls of listener.Increment; a call after Done is counted as late.
Increment(l, n) == [l EXCEPT !.steps = @ + n, !.late = IF l.done THEN @ + n ELSE @]

\* listener.Stopping().
Stopping(l) == [l EXCEPT !.stoppings = @ + 1, !.late = IF l.done THEN @ + 1 ELSE @]

\* The go func(){ <-ctx.Done(); Stopping() }() every operation starts.
Spawn(g) == gs' = [gs EXCEPT ![g] = "waiting"]

\* A stage ends: log it, and on failure New returns its error; after the
\* last stage New returns nil.
EndStage(s, ok, next) ==
    /\ stageLog' = Append(stageLog, <<s, ok>>)
    /\ pc' = IF ok THEN next ELSE "returned"
    /\ result' = CASE ~ok              -> "err"
                   [] next = "returned" -> "ok"
                   [] OTHER             -> result

-----------------------------------------------------------------------------

Init ==
    /\ pc = "start"
    /\ cancelled = FALSE
    /\ gs = [g \in Goroutines |-> "none"]
    /\ ticks = 0
    /\ listener = [total |-> 0, steps |-> 0, stoppings |-> 0,
                   completed |-> FALSE, done |-> FALSE, late |-> 0]
    /\ deployed = "none"
    /\ stageLog = <<>>
    /\ result = "none"

\* New: SetTotal(3) and start the cancellation watcher.
NewStart ==
    /\ pc = "start"
    /\ listener' = [listener EXCEPT !.total = 3]
    /\ Spawn("NewWatcher")
    /\ pc' = "create"
    /\ UNCHANGED <<cancelled, ticks, deployed, stageLog, result>>

\* c.Create(cfg), then NewFunction of the new root.
Create ==
    /\ pc = "create"
    /\ \E ok \in BOOLEAN : EndStage("Create", ok, "build")
    /\ UNCHANGED <<cancelled, gs, ticks, listener, deployed>>

\* New's Increment, then Build's own Increment and, unless verbose,
\* printBuildActivity starting the heartbeat; Build then loads the
\* Function and calls the Builder, which may block arbitrarily long.
BuildStart ==
    /\ pc = "build"
    /\ listener' = Increment(listener, 2)
    /\ IF Verbose THEN UNCHANGED gs ELSE Spawn("Heartbeat")
    /\ pc' = "building"
    /\ UNCHANGED <<cancelled, ticks, deployed, stageLog, result>>

\* Build returns: an error (load, DerivedImage, Builder, f.Write or the
\* build stamp), or success with the "image built" Increment.
BuildEnd ==
    /\ pc = "building"
    /\ \E ok \in BOOLEAN :
          /\ listener' = IF ok THEN Increment(listener, 1) ELSE listener
          /\ EndStage("Build", ok, "push")
    /\ UNCHANGED <<cancelled, gs, ticks, deployed>>

\* Mutant: Push's error does not end New.
PushNoReturn ==
    /\ pc = "push"
    /\ listener' = Increment(listener, 1)
    /\ \E ok \in BOOLEAN : /\ stageLog' = Append(stageLog, <<"Push", ok>>)
                           /\ pc' = "deploy"
                           /\ result' = IF ok THEN result ELSE "err"
    /\ UNCHANGED <<cancelled, gs, ticks, deployed>>

\* New's Increment, then c.Push (the image Build recorded is present).
Push ==
    /\ pc = "push"
    /\ listener' = Increment(listener, 1)
    /\ \E ok \in BOOLEAN : EndStage("Push", ok, "deploy")
    /\ UNCHANGED <<cancelled, gs, ticks, deployed>>

\* New's Increment; Deploy starts its own watcher and loads the Function.
\* NewFunction may fail, and Deploy returns its error; ErrNotBuilt cannot
\* follow a Build and a Push that succeeded, which recorded the image.
\* Otherwise Deploy Increments and calls the Deployer.
DeployStart ==
    /\ pc = "deploy"
    /\ Spawn("DeployWatcher")
    /\ \/ /\ listener' = Increment(listener, 1)
          /\ EndStage("Deploy", FALSE, "route")
       \/ /\ listener' = Increment(listener, 2)
          /\ pc' = "deploying"
          /\ UNCHANGED <<stageLog, result>>
    /\ UNCHANGED <<cancelled, ticks, deployed>>

\* The Deployer returns: Deployed and Updated are Incremented; Deploy
\* returns the Deployer's error, whatever the Status.
DeployEnd ==
    /\ pc = "deploying"
    /\ \E o \in DeployOutcomes :
          /\ deployed' = o.status
          /\ listener' = IF o.status \in {"Deployed", "Updated"}
                         THEN Increment(listener, 1) ELSE listener
          /\ EndStage("Deploy", ~o.err, "route")
    /\ UNCHANGED <<cancelled, gs, ticks>>

\* New's Increment, then c.Route (NewFunction, DNSProvider.Provide);
\* on success Complete("Done") and New returns nil.
Route ==
    /\ pc = "route"
    /\ \E ok \in BOOLEAN :
          /\ listener' = [Increment(listener, 1) EXCEPT !.completed = ok]
          /\ EndStage("Route", ok, "returned")
    /\ UNCHANGED <<cancelled, gs, ticks, deployed>>

\* The caller's deferred listener.Done() once New has returned.
CallerDone ==
    /\ pc = "returned"
    /\ pc' = "done"
    /\ listener' = [listener EXCEPT !.done = TRUE]
    /\ UNCHANGED <<cancelled, gs, ticks, deployed, stageLog, result>>

\* The context is cancelled (interrupt, or the caller's cancel on exit).
Cancel ==
    /\ ~cancelled
    /\ cancelled' = TRUE
    /\ UNCHANGED <<pc, gs, ticks, listener, deployed, stageLog, result>>

\* Mutant: a watcher that loops on the closed ctx.Done() channel.
WatcherLoop(g) ==
    /\ gs[g] = "waiting"
    /\ cancelled
    /\ listener' = Stopping(listener)
    /\ UNCHANGED <<pc, cancelled, gs, ticks, deployed, stageLog, result>>

\* A cancellation watcher wakes on ctx.Done() and calls Stopping.
Watcher(g) ==
    /\ gs[g] = "waiting"
    /\ cancelled
    /\ gs' = [gs EXCEPT ![g] = "exited"]
    /\ listener' = Stopping(listener)
    /\ UNCHANGED <<pc, cancelled, ticks, deployed, stageLog, result>>

\* The heartbeat's select takes the ticker: Increment("Still building...").
\* When ctx.Done() is ready too, Go's select may still take the ticker.
HeartbeatTick ==
    /\ gs["Heartbeat"] = "waiting"
    /\ ticks < MaxTicks
    /\ ticks' = ticks + 1
    /\ listener' = Increment(listener, 1)
    /\ UNCHANGED <<pc, cancelled, gs, deployed, stageLog, result>>

\* The heartbeat's select takes ctx.Done(): Stopping, ticker.Stop, return.
HeartbeatStop ==
    /\ gs["Heartbeat"] = "waiting"
    /\ cancelled
    /\ gs' = [gs EXCEPT !["Heartbeat"] = "exited"]
    /\ listener' = Stopping(listener)
    /\ UNCHANGED <<pc, cancelled, ticks, deployed, stageLog, result>>

Next ==
    \/ NewStart \/ Create \/ BuildStart \/ BuildEnd \/ Push
    \/ DeployStart \/ DeployEnd \/ Route \/ CallerDone
    \/ Cancel
    \/ \E g \in {"NewWatcher", "DeployWatcher"} : Watcher(g)
    \/ HeartbeatTick \/ HeartbeatStop

Spec == Init /\ [][Next]_vars

-----------------------------------------------------------------------------

TypeOK ==
    /\ pc \in {"start", "create", "build", "building", "push", "deploy",
               "deploying", "route", "returned", "done"}
    /\ cancelled \in BOOLEAN
    /\ gs \in [Goroutines -> {"none", "waiting", "exited"}]
    /\ ticks \in 0..MaxTicks
    /\ listener.total \in {0, 3}
    /\ listener.steps \in 0..(8 + MaxTicks)
    /\ listener.stoppings \in 0..Cardinality(Goroutines)
    /\ listener.completed \in BOOLEAN /\ listener.done \in BOOLEAN
    /\ deployed \in Statuses \cup {"none"}
    /\ stageLog \in Seq({Stages[i] : i \in 1..Len(Stages)} \X BOOLEAN)
    /\ result \in {"none", "ok", "err"}

\* Client.New runs Create, Build, Push, Deploy and Route in that order and
\* short-circuits on the first failure: every stage run before the last
\* succeeded, and New returns nil exactly when all five did.
StagesInOrder ==
    LET n == Len(stageLog) IN
    /\ n <= Len(Stages)
    /\ \A i \in 1..n : stageLog[i][1] = Stages[i]
    /\ \A i \in 1..(n - 1) : stageLog[i][2]
    /\ result = "ok" <=> (n = Len(Stages) /\ stageLog[n][2])
    /\ result = "err" <=> (n > 0 /\ ~stageLog[n][2])

====
