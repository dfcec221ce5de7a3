---------------------------- MODULE PythonProcess ----------------------------
(***************************************************************************)
(* A Python program around one runtime: the bindings                       *)
(* (src/cpp/src/dar/bindings) and the SDK (src/python/dar/runtime) over    *)
(* LocalRuntime, with the interpreter lock and the waiters of GetResult.   *)
(*                                                                         *)
(* The interpreter gives its lock to any thread that wants to run byte     *)
(* code, so a step of Python code only needs the lock to be obtainable.    *)
(* It is not while a thread is inside a native call that keeps it: Submit, *)
(* which is two critical sections here, and the destructor of Runtime.     *)
(* Start, cancel and status keep it too, and are one step each.            *)
(*                                                                         *)
(* One thread of the program starts the runtime and shuts it down, as in   *)
(* a "with" block; any thread submits, cancels and gets.                   *)
(***************************************************************************)
EXTENDS LocalRuntime, TaskResults

CONSTANTS Asks,           \* the tasks each caller of GetResult may ask for
          MayDropBusy     \* may the program let the last reference to a
                          \* running runtime go while it has work?

ASSUME AsksAssumption == Asks \in [Callers -> SUBSET Tasks]
ASSUME MayDropBusyAssumption == MayDropBusy \in BOOLEAN

\* Invoke may answer so before it looks at the callable.
ASSUME CancelledAssumption == "Cancelled" \in HandlerOutcomes

VARIABLES
    invoke,      \* where PythonCallback::Invoke is on a worker that executes:
                 \* before its first check ("check"), waiting for the lock
                 \* ("enter"), in the callable ("python"), or on its way back
                 \* with the outcome it decided
    dropping     \* the last shared_ptr<Runtime> was released by a Python object

pythonVars == <<resultVars, invoke, dropping>>
processVars == <<vars, pythonVars>>

InvokePhases == {"check", "enter", "python"} \cup HandlerOutcomes

ProcessTypeOK ==
    /\ TypeOK
    /\ ResultTypeOK
    /\ invoke \in [Workers -> InvokePhases]
    /\ dropping \in BOOLEAN

ProcessInit ==
    /\ Init
    /\ ResultInit
    /\ invoke = [w \in Workers |-> "check"]
    /\ dropping = FALSE

\* Some thread is inside a native call that keeps the interpreter lock.
LockKept ==
    \/ submitting # None
    \/ dropping /\ owner # "stopped"

\* Variants: get() or shutdown() keeps the lock while it waits.
ObtainableUnlessGetting ==
    ~LockKept /\ \A c \in Callers \ Timed : getting[c] \notin {"wait", "woken"}
ObtainableUnlessDraining == ~LockKept /\ owner # "drain"

\* Get and Shutdown give the lock up before they wait.
LockObtainable == ~LockKept

\* A Python thread runs byte code and has a handle to the runtime.
InPython == LockObtainable /\ ~dropping

-----------------------------------------------------------------------------
(* NativeRuntime and NativeExecutionRef *)

\* Runtime.start and NativeRuntime::Start.  The SDK refuses to start a runtime
\* again that was shut down.
PyStart ==
    /\ InPython
    /\ starts = 0
    /\ Start
    /\ UNCHANGED pythonVars

\* Runtime.submit and NativeRuntime::Submit; the lock is kept to the end.
PySubmit(t) ==
    /\ InPython
    /\ SubmitRegister(t)
    /\ UNCHANGED pythonVars

PySubmitEnds(t) == Enqueue(t) /\ UNCHANGED pythonVars

\* ObjectRef.cancel and NativeExecutionRef::Cancel.  The handle exists once
\* submit has returned.
PyCancel(t) ==
    /\ InPython
    /\ Cancel(t)
    /\ IF state[t] = "Queued" THEN NotifyGetters(t) ELSE UNCHANGED getting
    /\ UNCHANGED <<asked, answer, invoke, dropping>>

\* ObjectRef.get and NativeExecutionRef::Get give the lock up before GetResult.
\* Threads with a timeout are native: the bindings always wait for ever.
Get(c, t) ==
    /\ ~dropping
    /\ t \in Asks[c]
    /\ c \notin Timed => LockObtainable /\ state[t] # None
    /\ GetResult(c, t)
    /\ UNCHANGED <<vars, invoke, dropping>>

GetWakes(c) == GetAfterWait(c) /\ UNCHANGED <<vars, invoke, dropping>>

GetTimesOut(c) == TimesOut(c) /\ UNCHANGED <<vars, invoke, dropping>>

\* Get takes the lock back to return the bytes or to raise.
GetReturns(c) ==
    /\ getting[c] = "answered"
    /\ c \notin Timed => LockObtainable
    /\ getting' = [getting EXCEPT ![c] = "done"]
    /\ UNCHANGED <<vars, asked, answer, invoke, dropping>>

\* Runtime.shutdown and NativeRuntime::Shutdown, which gives the lock up.
PyShutdown ==
    /\ InPython
    /\ CloseAdmission
    /\ UNCHANGED pythonVars

\* The last Python object that shares the Runtime is collected: ~Runtime calls
\* Shutdown on this thread, which keeps the lock.  A call in progress holds a
\* reference.
DropRuntime ==
    /\ InPython
    /\ \A c \in Callers : getting[c] \in {"idle", "done"}
    /\ MayDropBusy \/ \A t \in Tasks : state[t] \in Terminal \cup {None}
    /\ CloseAdmission
    /\ dropping' = TRUE
    /\ UNCHANGED <<resultVars, invoke>>

-----------------------------------------------------------------------------
(* PythonCallback::Invoke, the handler of every task *)

InvokeStep(w, from, to) ==
    /\ thread[w] = "exec"
    /\ invoke[w] = from
    /\ invoke' = [invoke EXCEPT ![w] = to]
    /\ UNCHANGED <<vars, resultVars, dropping>>

\* The first look at the token, without the lock.
CheckBeforeEntry(w) ==
    InvokeStep(w, "check", IF token[work[w]] THEN "Cancelled" ELSE "enter")

\* gil_scoped_acquire.
EnterPython(w) ==
    /\ LockObtainable
    /\ InvokeStep(w, "enter", "python")

\* How the callable ended decides the status, and so does the second look at
\* the token when it returned bytes.
OutcomeAnyhow(w, raised) == IF raised THEN "Failed" ELSE "Succeeded"  \* variant
OutcomeOf(w, raised) ==
    IF raised THEN "Failed"
    ELSE IF token[work[w]] THEN "Cancelled" ELSE "Succeeded"

CallableEnds(w) ==
    /\ LockObtainable
    /\ invoke[w] = "python"
    /\ \E raised \in BOOLEAN :
          /\ OutcomeOf(w, raised) \in HandlerOutcomes
          /\ InvokeStep(w, "python", OutcomeOf(w, raised))

\* The handler has returned and TaskManager::Complete records its status.
InvokeEnds(w) ==
    /\ invoke[w] \in Terminal
    /\ Finish(w, invoke[w])
    /\ NotifyGetters(work[w])
    /\ invoke' = [invoke EXCEPT ![w] = "check"]
    /\ UNCHANGED <<asked, answer, dropping>>

-----------------------------------------------------------------------------
\* The rest of Worker::Run.
WorkerLoop(w) ==
    /\ \/ Begin(w)
       \/ BecomeIdle(w)
       \/ TakeReservation(w)
       \/ ReturnCapacity(w)
       \/ NotifyScheduler(w)
       \/ WorkerExits(w)
    /\ UNCHANGED pythonVars

PyWorkerStep(w) ==
    \/ CheckBeforeEntry(w)
    \/ EnterPython(w)
    \/ CallableEnds(w)
    \/ InvokeEnds(w)
    \/ WorkerLoop(w)

GetStep(c) == GetWakes(c) \/ GetReturns(c)

SchedulerMoves == SchedulerStep /\ UNCHANGED pythonVars
ShutdownMoves == ShutdownStep /\ UNCHANGED pythonVars

ProcessNext ==
    \/ PyStart
    \/ PyShutdown
    \/ DropRuntime
    \/ ShutdownMoves
    \/ SchedulerMoves
    \/ \E w \in Workers : PyWorkerStep(w)
    \/ \E t \in Tasks : PySubmit(t) \/ PySubmitEnds(t) \/ PyCancel(t)
    \/ \E c \in Callers : GetStep(c) \/ GetTimesOut(c) \/ \E t \in Tasks : Get(c, t)

ProcessSpec == ProcessInit /\ [][ProcessNext]_processVars

\* As in LocalRuntime; and the callables of the program end, and a thread that
\* wants the interpreter lock gets it when it is there.
ProcessFairSpec ==
    /\ ProcessSpec
    /\ WF_processVars(SchedulerMoves)
    /\ WF_processVars(ShutdownMoves)
    /\ \A w \in Workers : WF_processVars(PyWorkerStep(w))
    /\ \A t \in Tasks : WF_processVars(PySubmitEnds(t))
    /\ \A c \in Callers : WF_processVars(GetStep(c))

-----------------------------------------------------------------------------
\* Nobody sleeps on the record of a task that has ended: completion and the
\* cancellation of a queued task notify under the lock GetResult waits with.
NoForgottenGetter ==
    \A c \in Callers : getting[c] = "wait" => ~Ended(asked[c])

\* What get() reported is how the task ended, whoever asked, when it asked and
\* whatever raced with its timeout.
AnswersAgreeWithRecord ==
    \A c \in Callers : answer[c] \in Terminal => state[asked[c]] = answer[c]

\* get() returns: no waiter is forgotten, and no worker that has to run Python
\* code for it waits for a lock the waiter keeps.
GetsReturn == \A c \in Callers : getting[c] = "wait" ~> getting[c] = "done"

\* A cancellation that is accepted while the callable is still running, or has
\* not begun, is not answered with a success.
InCallable(t) ==
    \E w \in Workers :
        work[w] = t /\ thread[w] = "exec" /\ invoke[w] \in {"check", "enter", "python"}
CancelledCallsDoNotSucceed ==
    \A t \in Tasks :
        InCallable(t) /\ token[t] ~> state[t] \in {"Cancelled", "Failed"}

\* Its safety half: whenever the callable ends after that, and whatever else the
\* program does, the record never says that the call succeeded.
CancelledNeverSucceeds ==
    \A t \in Tasks : [](InCallable(t) /\ token[t] => [](state[t] # "Succeeded"))
=============================================================================
