------------------------------- MODULE Remove -------------------------------
(***************************************************************************)
(* Client.Remove of src/unnamed/part_000: the target name comes from cfg   *)
(* or from the Function loaded at its root; the Knative service is removed *)
(* by a goroutine that sends the Remover's error on an unbuffered channel, *)
(* while the caller removes the pipeline resources when deleteAll is set;  *)
(* the caller then receives the service error and combines the two.       *)
(* The cancellation watcher every operation starts runs beside them.       *)
(* Errors are named by the removal that failed: "service", "resources";    *)
(* "load" is an error of NewFunction or of an uninitialized root.          *)
(***************************************************************************)
EXTENDS Naturals, FiniteSets

VARIABLES
    pc,         \* the caller: "start", "resolved", "receive", "returned"
    byName,     \* cfg.Name was given
    deleteAll,  \* the deleteAll argument
    svc,        \* the removal goroutine: "none", "removing", "sending", "done"
    errSvc,     \* the Remover's error (once it returned)
    errRes,     \* the PipelinesProvider's error
    watcher,    \* the ctx watcher: "waiting", "exited"
    cancelled,  \* the context is done
    returned    \* the errors Remove returned, as the set of failed removals

vars == <<pc, byName, deleteAll, svc, errSvc, errRes, watcher, cancelled, returned>>

\* Mutant: the combination drops the resources-only case.
AggregateServiceFirst(es, er) ==
    CASE es /\ er -> {"service", "resources"}
      [] es       -> {"service"}
      [] OTHER    -> {}

\* The error returned for the two removal errors: both combined, else the
\* resources' error, else the service's.
Aggregate(es, er) ==
    CASE es /\ er -> {"service", "resources"}
      [] er       -> {"resources"}
      [] es       -> {"service"}
      [] OTHER    -> {}

-----------------------------------------------------------------------------

Init ==
    /\ pc = "start"
    /\ byName \in BOOLEAN
    /\ deleteAll \in BOOLEAN
    /\ svc = "none"
    /\ errSvc = FALSE
    /\ errRes = FALSE
    /\ watcher = "waiting"
    /\ cancelled = FALSE
    /\ returned = {}

\* Without a name, NewFunction(cfg.Root) is loaded; a load error or an
\* uninitialized Function returns an error. Otherwise the goroutine that
\* removes the service is started.
Resolve ==
    /\ pc = "start"
    /\ \/ /\ ~byName
          /\ pc' = "returned"
          /\ returned' = {"load"}
          /\ UNCHANGED svc
       \/ /\ pc' = "resolved"
          /\ svc' = "removing"
          /\ UNCHANGED returned
    /\ UNCHANGED <<byName, deleteAll, errSvc, errRes, watcher, cancelled>>

\* The goroutine's c.remover.Remove(ctx, name) returns.
RemoverReturns ==
    /\ svc = "removing"
    /\ \E e \in BOOLEAN : errSvc' = e
    /\ svc' = "sending"
    /\ UNCHANGED <<pc, byName, deleteAll, errRes, watcher, cancelled, returned>>

\* Mutant: the caller returns the resources' error before receiving.
RemoveResourcesEarlyReturn ==
    /\ pc = "resolved"
    /\ \E e \in BOOLEAN :
          /\ errRes' = (deleteAll /\ e)
          /\ pc' = IF errRes' THEN "returned" ELSE "receive"
          /\ returned' = IF errRes' THEN {"resources"} ELSE returned
    /\ UNCHANGED <<byName, deleteAll, svc, errSvc, watcher, cancelled>>

\* The caller, with deleteAll, removes the pipeline resources.
RemoveResources ==
    /\ pc = "resolved"
    /\ pc' = "receive"
    /\ IF deleteAll THEN \E e \in BOOLEAN : errRes' = e ELSE UNCHANGED errRes
    /\ UNCHANGED <<byName, deleteAll, svc, errSvc, watcher, cancelled, returned>>

\* errService := <-errChan meets the goroutine's send, then the errors are
\* combined and returned.
Receive ==
    /\ pc = "receive"
    /\ svc = "sending"
    /\ svc' = "done"
    /\ pc' = "returned"
    /\ returned' = Aggregate(errSvc, errRes)
    /\ UNCHANGED <<byName, deleteAll, errSvc, errRes, watcher, cancelled>>

\* The context is cancelled.
Cancel ==
    /\ ~cancelled
    /\ cancelled' = TRUE
    /\ UNCHANGED <<pc, byName, deleteAll, svc, errSvc, errRes, watcher, returned>>

\* The watcher wakes on ctx.Done() and calls Stopping.
Watcher ==
    /\ watcher = "waiting"
    /\ cancelled
    /\ watcher' = "exited"
    /\ UNCHANGED <<pc, byName, deleteAll, svc, errSvc, errRes, cancelled, returned>>

\* Remove has returned and its watcher is gone: the invocation is over.
Finished ==
    /\ pc = "returned"
    /\ watcher = "exited"
    /\ UNCHANGED vars

Next ==
    \/ Resolve \/ RemoverReturns \/ RemoveResources \/ Receive
    \/ Cancel \/ Watcher \/ Finished

Spec == Init /\ [][Next]_vars

-----------------------------------------------------------------------------

\* Remove reports exactly the removals that failed: both errors combined
\* when both fail, else the one that failed (spec 7, aggregate failures).
RemoveReportsFailures ==
    pc = "returned" /\ returned # {"load"} =>
        returned = {r \in {"service", "resources"} :
                       IF r = "service" THEN errSvc ELSE errRes}

\* The service removal's result is always received: Remove never returns
\* leaving its goroutine blocked on the unbuffered errChan.
ServiceAlwaysAwaited == pc = "returned" => svc \in {"none", "done"}
====
