------------------------------ MODULE Dispatch ------------------------------
(***************************************************************************)
(* Components of patina's component model run against shared Storage.     *)
(*                                                                         *)
(* Each component is a StructComponent (struct_component.rs): initialize   *)
(* runs every parameter's init_state against Storage and the component's   *)
(* access record; run_unsafe re-validates the parameters, records the      *)
(* first failing one and reports "did not run", or extracts the handles    *)
(* and calls the entry point.  Storage (config slots with a locked flag,   *)
(* published services, the deferred command queue) and the dispatcher      *)
(* that calls initialize, run, apply_deferred and lock_configs are not     *)
(* under src/: they are modelled from the spec (sections 4.1, 5 and 6).    *)
(***************************************************************************)
EXTENDS Params, FiniteSets

CONSTANTS
    Comp,          \* the components registered with the dispatcher
    Val,           \* configuration values
    DefaultVal,    \* T::default()
    NoVal,         \* "not read" marker
    SigChoices,    \* SigChoices[k]: the entry-point signatures component k may have
    Mode,          \* Mode[k] \in {"RunOnce", "RunMany"}: entry point takes self or &self
    DebugAsserts,  \* debug_assert! compiled in (debug build)
    LateInit,      \* the dispatcher may initialize a component after dispatch began
    RetryOnError,  \* the dispatcher offers a run again to a component that returned Err
    MaxQueue       \* bound on the deferred queue (the Vec is unbounded)

ASSUME DispatchAssumption ==
    /\ DefaultVal \in Val
    /\ NoVal \notin Val
    /\ SigChoices \in [Comp -> SUBSET Seq(Member)]
    /\ \A k \in Comp : SigChoices[k] # {} /\ \A s \in SigChoices[k] : IsSignature(s)
    /\ Mode \in [Comp -> {"RunOnce", "RunMany"}]
    /\ DebugAsserts \in BOOLEAN
    /\ LateInit \in BOOLEAN
    /\ RetryOnError \in BOOLEAN
    /\ MaxQueue \in Nat

\* Deferred commands: Commands::add_config and Commands::add_service.
Cmd == [op : {"add_config"}, id : Cfg, val : Val] \cup [op : {"add_service"}, id : Svc]

Status == {"new", "ready", "done", "failed", "aborted"}

VARIABLES
    sig,          \* the component's entry-point signature
    status,       \* lifecycle of each component
    failed,       \* MetaData::failed_param: index of the member that failed validation
    exists,       \* config slot created
    locked,       \* config slot locked flag
    value,        \* config slot value
    published,    \* services present in storage
    queue,        \* Storage's Deferred command queue
    seen,         \* seen[k][c]: the value component k last read through Config<c>
    dispatching,  \* the dispatcher has begun running components
    panic         \* "none", "init_conflict" or "run_panic": the program aborted

vars == <<sig, status, failed, exists, locked, value, published, queue, seen,
          dispatching, panic>>

-----------------------------------------------------------------------------
Init ==
    /\ sig = [k \in Comp |-> <<>>]
    /\ status = [k \in Comp |-> "new"]
    /\ failed = [k \in Comp |-> 0]
    /\ exists = [c \in Cfg |-> FALSE]
    /\ locked = [c \in Cfg |-> TRUE]
    /\ value = [c \in Cfg |-> DefaultVal]
    /\ published = {}
    /\ queue = <<>>
    /\ seen = [k \in Comp |-> [c \in Cfg |-> NoVal]]
    /\ dispatching = FALSE
    /\ panic = "none"

\* StructComponent::initialize: init_state of every leaf in order.  A new
\* slot is created locked with the default value; ConfigMut unlocks its slot.
\* In a debug build a conflicting leaf aborts the program after the slots of
\* the leaves before it, and its own, were touched.
Initialize(k) ==
    /\ panic = "none"
    /\ status[k] = "new"
    /\ ~dispatching \/ LateInit
    /\ \E s \in SigChoices[k] :
        LET P == Registered(s, DebugAsserts)
            aborts == DebugAsserts /\ AbortPositions(s) # {}
        IN  /\ sig' = [sig EXCEPT ![k] = s]
            /\ exists' = [c \in Cfg |-> exists[c] \/ c \in CreatedIds(s, P)]
            /\ locked' = [c \in Cfg |->
                            IF c \in UnlockedIds(s, P) THEN FALSE
                            ELSE IF exists[c] THEN locked[c] ELSE TRUE]
            /\ value' = [c \in Cfg |-> IF exists[c] THEN value[c] ELSE DefaultVal]
            /\ status' = [status EXCEPT ![k] = IF aborts THEN "aborted" ELSE "ready"]
            /\ panic' = IF aborts THEN "init_conflict" ELSE "none"
    /\ UNCHANGED <<failed, published, queue, seen, dispatching>>

\* The dispatcher starts running components once all are initialized.
StartDispatch ==
    /\ panic = "none"
    /\ ~dispatching
    /\ LateInit \/ \A k \in Comp : status[k] # "new"
    /\ dispatching' = TRUE
    /\ UNCHANGED <<sig, status, failed, exists, locked, value, published, queue,
                   seen, panic>>

\* run_unsafe when try_validate fails: record the member, report Ok(false).
RunNotReady(k) ==
    /\ panic = "none"
    /\ dispatching
    /\ status[k] = "ready"
    /\ FirstInvalid(sig[k], locked, published) # 0
    /\ failed' = [failed EXCEPT ![k] = FirstInvalid(sig[k], locked, published)]
    /\ UNCHANGED <<sig, status, exists, locked, value, published, queue, seen,
                   dispatching, panic>>

\* The commands one run of an entry point pushes onto Deferred, in call
\* order, through any number of Commands::add_config and add_service calls
\* (at most n of them).
Batch(n) == UNION {[1..m -> Cmd] : m \in 0..n}

\* run_unsafe when every member validates: get_param of each leaf, which
\* panics on a missing service or a second borrow of a slot, then the entry
\* point.  The entry point may write and lock each slot it holds a
\* ConfigMut for, may enqueue commands if it holds Commands, and returns
\* Ok or Err.  A RunOnce entry point consumed its input.
RunInvoke(k) ==
    /\ panic = "none"
    /\ dispatching
    /\ status[k] = "ready"
    /\ FirstInvalid(sig[k], locked, published) = 0
    /\ LET s == sig[k]
           X == Extracted(s, locked, published)
           W == WriteIds(s, X)
       IN  IF MissingService(s, X, published) \/ BorrowClash(s, X)
           THEN /\ panic' = "run_panic"
                /\ UNCHANGED <<sig, status, failed, exists, locked, value,
                               published, queue, seen, dispatching>>
           ELSE \E nv \in [W -> Val], lk \in SUBSET W, ok \in BOOLEAN,
                   cmds \in IF HasCommands(s, X) /\ Len(queue) < MaxQueue
                            THEN Batch(MaxQueue - Len(queue)) ELSE {<<>>} :
                /\ value' = [c \in Cfg |-> IF c \in W THEN nv[c] ELSE value[c]]
                /\ locked' = [c \in Cfg |-> locked[c] \/ c \in lk]
                /\ seen' = [seen EXCEPT ![k] =
                              [c \in Cfg |-> IF c \in ReadIds(s, X) THEN value[c]
                                             ELSE seen[k][c]]]
                /\ queue' = queue \o cmds
                /\ status' = [status EXCEPT ![k] =
                                IF ~ok THEN "failed"
                                ELSE IF Mode[k] = "RunOnce" THEN "done" ELSE "ready"]
                /\ UNCHANGED <<sig, failed, exists, published, dispatching, panic>>

\* run_unsafe offered again to a component whose entry point returned Err
\* (spec 7: retrying is the scheduler's decision).  It validates first; a
\* RunMany entry point borrows its input and is simply eligible again, a
\* RunOnce one took its input on the first run, so the debug_assert! of
\* run_unsafe, or input.take().unwrap(), panics.
RetryFailed(k) ==
    /\ RetryOnError
    /\ panic = "none"
    /\ dispatching
    /\ status[k] = "failed"
    /\ CASE FirstInvalid(sig[k], locked, published) # 0 ->
              /\ failed' = [failed EXCEPT ![k] = FirstInvalid(sig[k], locked, published)]
              /\ UNCHANGED <<status, panic>>
         [] FirstInvalid(sig[k], locked, published) = 0 /\ Mode[k] = "RunMany" ->
              /\ status' = [status EXCEPT ![k] = "ready"]
              /\ UNCHANGED <<failed, panic>>
         [] OTHER ->
              /\ panic' = "run_panic"
              /\ UNCHANGED <<status, failed>>
    /\ UNCHANGED <<sig, exists, locked, value, published, queue, seen, dispatching>>

\* The value of the last add_config for c in the queue.
LastConfigWrite(c) ==
    {i \in 1..Len(queue) : queue[i].op = "add_config" /\ queue[i].id = c
        /\ \A j \in (i + 1)..Len(queue) : ~(queue[j].op = "add_config" /\ queue[j].id = c)}

\* The configs and services the queued closures add (Commands::add_config,
\* Commands::add_service -> IntoService::register).
ConfigsAdded(q) == {q[i].id : i \in {j \in 1..Len(q) : q[j].op = "add_config"}}

\* Mutation variant: the op filter dropped.
ServicesAddedUnfiltered(q) == {q[i].id : i \in 1..Len(q)}

ServicesAdded(q) == {q[i].id : i \in {j \in 1..Len(q) : q[j].op = "add_service"}}

\* Storage::apply_deferred: run every queued command in order, then clear.
\* add_config creates a missing slot locked; add_service publishes.
ApplyDeferred ==
    /\ panic = "none"
    /\ dispatching
    /\ queue # <<>>
    /\ LET W == ConfigsAdded(queue)
       IN  /\ exists' = [c \in Cfg |-> exists[c] \/ c \in W]
           /\ locked' = [c \in Cfg |-> IF c \in W /\ ~exists[c] THEN TRUE ELSE locked[c]]
           /\ value' = [c \in Cfg |->
                          IF LastConfigWrite(c) = {} THEN value[c]
                          ELSE queue[CHOOSE i \in LastConfigWrite(c) : TRUE].val]
    /\ published' = published \cup ServicesAdded(queue)
    /\ queue' = <<>>
    /\ UNCHANGED <<sig, status, failed, seen, dispatching, panic>>

\* Mutation variant: the sweep spares slots that some component's
\* ConfigMut claims (spec 2: "lock everything not yet mutably claimed").
LockConfigsUnclaimed ==
    /\ panic = "none"
    /\ dispatching
    /\ queue = <<>>
    /\ \A k \in Comp : status[k] = "ready" => FirstInvalid(sig[k], locked, published) # 0
    /\ \E c \in Cfg : ~locked[c]
    /\ locked' = [c \in Cfg |-> locked[c] \/ \A k \in Comp : c \notin WriteIds(sig[k], Positions(sig[k]))]
    /\ UNCHANGED <<sig, status, failed, exists, value, published, queue, seen,
                   dispatching, panic>>

\* Storage::lock_configs, called by the dispatcher when no ready component
\* can run and no command is pending.
LockConfigs ==
    /\ panic = "none"
    /\ dispatching
    /\ queue = <<>>
    /\ \A k \in Comp : status[k] = "ready" => FirstInvalid(sig[k], locked, published) # 0
    /\ \E c \in Cfg : ~locked[c]
    /\ locked' = [c \in Cfg |-> TRUE]
    /\ UNCHANGED <<sig, status, failed, exists, value, published, queue, seen,
                   dispatching, panic>>

Next ==
    \/ \E k \in Comp : Initialize(k) \/ RunNotReady(k) \/ RunInvoke(k) \/ RetryFailed(k)
    \/ StartDispatch
    \/ ApplyDeferred
    \/ LockConfigs

Spec == Init /\ [][Next]_vars

\* The scheduler offers every component that has not completed a chance to
\* initialize and to run, drains the deferred queue between rounds and
\* sweeps the locks once nothing can run (spec 5, 6): weak fairness on each
\* of these steps.  Nothing is assumed of the entry point's own choices.
Fairness ==
    /\ \A k \in Comp : WF_vars(Initialize(k)) /\ WF_vars(RunInvoke(k))
    /\ WF_vars(StartDispatch)
    /\ WF_vars(ApplyDeferred)
    /\ WF_vars(LockConfigs)

FairSpec == Spec /\ Fairness

\* No entry point takes a tuple (or Option<tuple>) member: every member is a
\* single leaf, which the entry point's try_validate checks.
FlatSignature(s) == \A i \in 1..Len(s) : ~s[i].group

NoTupleMembers == \A k \in Comp : \A s \in SigChoices[k] : FlatSignature(s)

-----------------------------------------------------------------------------
TypeOK ==
    /\ sig \in [Comp -> Seq(Member)]
    /\ status \in [Comp -> Status]
    /\ failed \in [Comp -> Nat]
    /\ exists \in [Cfg -> BOOLEAN]
    /\ locked \in [Cfg -> BOOLEAN]
    /\ value \in [Cfg -> Val]
    /\ published \subseteq Svc
    /\ queue \in Seq(Cmd)
    /\ seen \in [Comp -> [Cfg -> Val \cup {NoVal}]]
    /\ dispatching \in BOOLEAN
    /\ panic \in {"none", "init_conflict", "run_panic"}

\* A value a component read through Config<T> comes from a locked slot, and
\* the slot is still locked: no ConfigMut can write it after the read
\* (Config::validate, try_validate, get_param).  A deferred add_config may
\* still replace the value; LockedConfigStable states what may change.
ConfigReadsFrozen ==
    \A k \in Comp, c \in Cfg : seen[k][c] # NoVal => locked[c]

\* Once dispatch began, an existing locked slot stays locked, and its value changes
\* only when apply_deferred runs an add_config (params.rs doc: "once a config
\* datum is locked, it cannot be unlocked").
LockedConfigStable ==
    [][dispatching =>
         \A c \in Cfg : exists[c] /\ locked[c] =>
             /\ locked'[c]
             /\ value'[c] = value[c] \/ Len(queue') < Len(queue)]_vars

\* No run panics: get_param never meets a missing service or a second borrow
\* of a slot once the access record and validation let the run proceed.
NoRunPanic == panic # "run_panic"

\* The services a signature waits for: its plain (not Option) Service members.
NeededServices(s) ==
    {s[i].leaves[1].id :
        i \in {j \in 1..Len(s) : ~s[j].group /\ ~s[j].leaves[1].opt
                                 /\ s[j].leaves[1].kind = "Service"}}

\* Every RunOnce component whose services end up published eventually runs
\* (done or failed), unless the program aborts: locking lets dependency
\* order emerge from data availability (spec 3), a ConfigMut producer's
\* slot is closed by the producer or by the final lock sweep, and the
\* scheduler keeps offering a run to every component not yet completed.
RunOnceEventuallyRuns ==
    \A k \in Comp : Mode[k] = "RunOnce" =>
        (<>[](NeededServices(sig[k]) \subseteq published)
            => <>(status[k] \in {"done", "failed"} \/ panic # "none"))

\* Initialize aborts a component exactly when two of its parameters conflict,
\* whatever their order (spec 4.2, 8), in a debug build.
InitAbortIffConflict ==
    \A k \in Comp :
        /\ status[k] = "aborted" => PairwiseConflict(sig[k])
        /\ status[k] \in {"ready", "done", "failed"} => ~PairwiseConflict(sig[k])

=============================================================================
