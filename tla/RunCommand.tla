----------------------------- MODULE RunCommand -----------------------------
(***************************************************************************)
(* runRun of src/cmd/run.go (`func run`) composed with the Client and its  *)
(* staleness engine (FuncClient) on one project root. One invocation:      *)
(* load the Function, merge the --env flags and write func.yaml if any     *)
(* changed, refuse an uninitialized Function, decide on --build (auto:     *)
(* only when Client.Built is false; true; false; anything else is an       *)
(* error), Client.Run the Function and wait until the context is done or   *)
(* the job reports an error, stopping the job on return.                   *)
(* Between invocations the user edits, creates, builds and pushes with     *)
(* the other commands; during an invocation the user waits until the      *)
(* Function has started.                                                   *)
(***************************************************************************)
EXTENDS Naturals, FiniteSets

CONSTANTS
    SrcFiles, Editable, ImageRef, NoImage, Digests, NoDigest, NoStamp,
    BadStamp, MaxClock, MaxEdits, FineClock, EditDuringBuild

VARIABLES
    files, content, desc, stamp, clock, op, snap, imageFrom, freshBuild,
    rpc,       \* runRun: "idle", "building", "running"
    flag,      \* config.Build of the invocation
    cancelled, \* the invocation's context is done (the user interrupted it)
    job,       \* the Runner's job: "none", "running", "stopped"
    jobFresh,  \* history: the job runs an image built from the current sources
    jobErr     \* the job has sent an error on job.Errors that runRun has not received

FC == INSTANCE FuncClient

fvars == <<files, content, desc, stamp, clock, op, snap, imageFrom, freshBuild>>
rvars == <<rpc, flag, cancelled, job, jobFresh, jobErr>>
vars  == <<fvars, rvars>>

\* The --build flag as the command line gives it: omitted, bare (`--build`),
\* or `--build=<value>`; bindEnv lets $FUNC_BUILD give a value as well.
BuildArgs == {"omitted", "bare", "auto", "1", "false", "yes"}

\* NewRunCmd's defaults: "auto" when omitted, NoOptDefVal "true" when bare.
BuildValue(a) == CASE a = "omitted" -> "auto"
                   [] a = "bare"    -> "true"
                   [] OTHER         -> a

\* newRunConfig: config.Build, and what the --env flags do to the envs:
\* nothing, an update, or an error of envFromCmd or mergeEnvs.
RunConfigs == [Build : {BuildValue(a) : a \in BuildArgs},
               Envs  : {"unchanged", "updated", "invalid"}]

\* The spellings strconv.ParseBool accepts.
Truthy == {"1", "t", "T", "TRUE", "true", "True"}
Falsy  == {"0", "f", "F", "FALSE", "false", "False"}

\* runRun's build decision for config.Build = v, given client.Built.
BuildDecision(v, built) ==
    CASE v = "auto"    -> IF built THEN "skip" ELSE "build"
      [] v \in Truthy  -> "build"
      [] v \in Falsy   -> "skip"
      [] OTHER         -> "invalid"

\* client.Run: NewFunction and the Initialized check pass (runRun has just
\* done both on the same root); the Runner returns an error, or a job of
\* the Function's image as it is after this step, with its own Errors channel.
RunFunction ==
    \/ /\ rpc' = "idle"
       /\ UNCHANGED <<job, jobFresh, jobErr>>
    \/ /\ rpc' = "running"
       /\ job' = "running"
       /\ jobFresh' = (imageFrom' = content')
       /\ jobErr' = FALSE

-----------------------------------------------------------------------------

Init ==
    /\ FC!Init
    /\ rpc = "idle"
    /\ flag = "auto"
    /\ cancelled = FALSE
    /\ job = "none"
    /\ jobFresh = FALSE
    /\ jobErr = FALSE

\* runRun up to the build decision: newRunConfig, fn.NewFunction(path),
\* mergeEnvs (an error returns with nothing changed) and, when an --env
\* flag changed the envs, function.Write(); only then the Initialized
\* check, then the --build decision; "skip" goes on to client.Run.
Start ==
    /\ rpc = "idle" /\ op = "idle"
    /\ cancelled' = FALSE
    /\ UNCHANGED <<content, stamp, imageFrom, freshBuild>>
    /\ \E c \in RunConfigs :
          LET updated == c.Envs = "updated" IN
          /\ flag' = c.Build
          /\ updated => FC!CanWrite
          /\ files' = IF updated THEN FC!Write({FC!FuncYaml}) ELSE files
          /\ desc' = IF updated THEN FC!Loaded ELSE desc
          /\ clock' = IF updated THEN FC!Now ELSE clock
          /\ IF c.Envs = "invalid" \/ ~FC!HasInitializedFunction
                \/ BuildDecision(c.Build, FC!Built') = "invalid"
             THEN rpc' = "idle" /\ UNCHANGED <<op, snap, job, jobFresh, jobErr>>
             ELSE IF BuildDecision(c.Build, FC!Built') = "build"
             THEN /\ rpc' = "building" /\ op' = "build" /\ snap' = content
                  /\ UNCHANGED <<job, jobFresh, jobErr>>
             ELSE RunFunction /\ UNCHANGED <<op, snap>>

\* client.Build returns (FuncClient's second Build step); on error runRun
\* returns it, else client.Run.
BuildReturns ==
    /\ rpc = "building"
    /\ FC!BuildSucceed \/ FC!BuildFail
    /\ IF freshBuild'
       THEN RunFunction
       ELSE rpc' = "idle" /\ UNCHANGED <<job, jobFresh, jobErr>>
    /\ UNCHANGED <<flag, cancelled>>

\* The user interrupts `func run`: the command's context is cancelled.
Interrupt ==
    /\ rpc # "idle"
    /\ ~cancelled
    /\ cancelled' = TRUE
    /\ UNCHANGED <<fvars, rpc, flag, job, jobFresh, jobErr>>

\* The select's ctx.Done() case: runRun returns (nil for a cancellation)
\* and the deferred job.Stop() stops the job; an error the job has sent
\* stays in job.Errors. Go's select picks among the ready cases at random,
\* so this case is taken whether or not job.Errors is ready as well.
Interrupted ==
    /\ rpc = "running"
    /\ cancelled
    /\ rpc' = "idle"
    /\ job' = "stopped"
    /\ UNCHANGED <<fvars, flag, cancelled, jobFresh, jobErr>>

\* The running Function fails: its job sends the error on job.Errors.
JobSendsError ==
    /\ rpc = "running"
    /\ ~jobErr
    /\ jobErr' = TRUE
    /\ UNCHANGED <<fvars, rpc, flag, cancelled, job, jobFresh>>

\* The select's job.Errors case: runRun receives the job's error, returns
\* it, and the deferred job.Stop() stops the job.
JobFails ==
    /\ rpc = "running"
    /\ jobErr
    /\ rpc' = "idle"
    /\ job' = "stopped"
    /\ jobErr' = FALSE
    /\ UNCHANGED <<fvars, flag, cancelled, jobFresh>>

\* Between invocations: `func create`, `func build`, `func deploy`'s push,
\* the user's edits and the passing of time.
Other ==
    /\ rpc = "idle"
    /\ \/ FC!Create \/ FC!BuildStart \/ FC!BuildSucceed \/ FC!BuildFail
       \/ FC!Push \/ \E p \in Editable : FC!Edit(p)
    /\ UNCHANGED rvars

\* Time passes at any moment.
Tick == FC!Tick /\ UNCHANGED rvars

Next == Start \/ BuildReturns \/ Interrupt \/ Interrupted \/ JobSendsError
        \/ JobFails
        \/ Other \/ Tick

Spec == Init /\ [][Next]_vars

-----------------------------------------------------------------------------

\* `func run` with --build=auto or a truthy --build runs an image built from
\* the sources as they are when the Function starts: auto skips the build
\* only when the staleness engine vouches for the image.
RunsFreshImage ==
    job = "running" /\ (flag = "auto" \/ flag \in Truthy) => jobFresh

\* Whatever `func run --env`, `func create` and `func build` did before, a
\* root that holds no initialized Function holds no file either, so that
\* `func create` (assertEmptyRoot) can still be run there: a failed or
\* refused command leaves no func.yaml or .gitignore behind.
UninitializedRootCreatable == FC!CreateRetryable

====
