------------------------------ MODULE EasyHttp ------------------------------
(***************************************************************************)
(* ezhttp::EasyHttp: one request engine.  The game's main thread sends,    *)
(* cancels and forgets requests, delivers results from RunFrame, and       *)
(* destroys the engine; a fixed pool of worker threads performs transfers. *)
(* They share pending_requests_ (mutex and condition variable),            *)
(* completed_requests_ (a second mutex) and the atomic flags of each       *)
(* RequestControl.                                                         *)
(*                                                                         *)
(* One action per critical section, per read of an atomic flag and per     *)
(* call that lets other threads run.  Requests are numbered in the order   *)
(* they are sent.  What a transfer does to files is in another module; the *)
(* session cache is CprSessionCache.                                       *)
(***************************************************************************)
EXTENDS Integers, Sequences, FiniteSets

CONSTANTS
    Worker,                \* the engine's worker threads
    MaxRequests,           \* bound: number of requests sent in a behaviour
    kMaxTasksExecPerFrame, \* results delivered by one RunFrame
    Method,                \* Method[r]: the RequestMethod of request r
    InvalidUrl,            \* requests whose URL may have no host
    Stalled                \* requests whose peer never answers

Request == 1 .. MaxRequests
RequestMethod == {"Http", "HttpDownload", "Ftp"}

ASSUME WorkerAssumption == Worker # {} /\ IsFiniteSet(Worker)
ASSUME BoundAssumption == MaxRequests \in Nat /\ kMaxTasksExecPerFrame \in Nat \ {0}
ASSUME RequestAssumption ==
    /\ Method \in [Request -> RequestMethod]
    /\ InvalidUrl \subseteq Request
    /\ Stalled \subseteq Request

VARIABLES
    sent,                \* number of requests sent
    pending_requests,    \* pending_requests_
    completed_requests,  \* completed_requests_
    requests,            \* requests_: the controls the engine tracks
    completed, forgotten, canceled,  \* RequestControl's flags, as sets
    code,                \* error code of the response, "none" while undecided
    wpc,                 \* where each worker is in WorkerLoop
    wreq,                \* the request each worker has taken, 0 for none
    stop_requested,      \* stop_requested_
    mpc,                 \* where the main thread is
    tasks,               \* RunFrame's loop counter
    current,             \* the request whose callback is running, 0 for none
    called,              \* log: requests whose callback was called, in order
    abandoned            \* ForgetAllRequests was called and the engine set aside

main_vars == <<mpc, tasks, current, called, abandoned>>
control_vars == <<completed, forgotten, canceled>>
worker_vars == <<wpc, wreq, code>>
vars == <<sent, pending_requests, completed_requests, requests, control_vars,
          worker_vars, stop_requested, main_vars>>

WorkerLabel == {"ready", "waiting", "popped", "getsession", "session",
                "prepare", "transfer", "finished", "respond", "exited"}
MainLabel == {"idle", "notify", "pop", "callback", "destroy",
              "notify_all", "join", "gone"}
ErrorCode == {"OK", "FAILED", "INTERNAL_ERROR", "INVALID_URL_FORMAT",
              "REQUEST_CANCELLED"}

Sent == 1 .. sent

Init ==
    /\ sent = 0
    /\ pending_requests = <<>>
    /\ completed_requests = <<>>
    /\ requests = {}
    /\ completed = {} /\ forgotten = {} /\ canceled = {}
    /\ code = [r \in Request |-> "none"]
    /\ wpc = [w \in Worker |-> "ready"]
    /\ wreq = [w \in Worker |-> 0]
    /\ stop_requested = FALSE
    /\ mpc = "idle" /\ tasks = 0 /\ current = 0 /\ called = <<>>
    /\ abandoned = FALSE

-----------------------------------------------------------------------------
(* The main thread. *)

\* Plugin code runs: between frames, or inside a callback (re-entrantly).
PluginRuns == mpc \in {"idle", "callback"}

Wake(ws) == [w \in Worker |-> IF w \in ws /\ wpc[w] = "waiting"
                              THEN "ready" ELSE wpc[w]]

\* Mutant of SendRequest: the request is not tracked.
SendRequestUntracked ==
    /\ PluginRuns /\ ~stop_requested /\ ~abandoned
    /\ sent < MaxRequests
    /\ sent' = sent + 1
    /\ pending_requests' = Append(pending_requests, sent + 1)
    /\ mpc' = "notify"
    /\ UNCHANGED <<requests, completed_requests, control_vars, worker_vars,
                   stop_requested, tasks, current, called, abandoned>>

\* SendRequest up to the unlock: the request is queued and tracked.  The owner
\* drops its reference to an engine before it destroys or abandons it, so
\* nothing is sent to one any more.
SendRequest ==
    /\ PluginRuns /\ ~stop_requested /\ ~abandoned
    /\ sent < MaxRequests
    /\ sent' = sent + 1
    /\ pending_requests' = Append(pending_requests, sent + 1)
    /\ requests' = requests \cup {sent + 1}
    /\ mpc' = "notify"
    /\ UNCHANGED <<completed_requests, control_vars, worker_vars, stop_requested,
                   tasks, current, called, abandoned>>

\* Mutant of NotifyOne: the notification is forgotten.
NotifyNone ==
    /\ mpc = "notify"
    /\ mpc' = IF current = 0 THEN "idle" ELSE "callback"
    /\ UNCHANGED <<sent, pending_requests, completed_requests, requests,
                   control_vars, worker_vars, stop_requested, tasks, current,
                   called, abandoned>>

\* pending_requests_cv_.notify_one(): one waiting worker, if there is one.
NotifyOne ==
    /\ mpc = "notify"
    /\ \/ \E w \in Worker : wpc[w] = "waiting" /\ wpc' = Wake({w})
       \/ (\A w \in Worker : wpc[w] # "waiting") /\ wpc' = wpc
    /\ mpc' = IF current = 0 THEN "idle" ELSE "callback"
    /\ UNCHANGED <<sent, pending_requests, completed_requests, requests,
                   control_vars, wreq, code, stop_requested, tasks, current,
                   called, abandoned>>

\* ezhttp_cancel_request on a request that is still tracked.
CancelRequest(r) ==
    /\ PluginRuns
    /\ r \in requests
    /\ canceled' = canceled \cup {r}
    /\ UNCHANGED <<sent, pending_requests, completed_requests, requests, completed,
                   forgotten, worker_vars, stop_requested, main_vars>>

\* CancelAllRequests, which the owner calls right before it destroys the engine.
CancelAllRequests ==
    /\ mpc = "idle" /\ ~abandoned
    /\ canceled' = canceled \cup requests
    /\ wpc' = Wake(Worker)
    /\ mpc' = "destroy"
    /\ UNCHANGED <<sent, pending_requests, completed_requests, requests, completed,
                   forgotten, wreq, code, stop_requested, tasks, current, called,
                   abandoned>>

\* ForgetAllRequests; the owner keeps the engine aside until it is inactive.
ForgetAllRequests ==
    /\ mpc = "idle" /\ ~abandoned
    /\ forgotten' = forgotten \cup requests
    /\ abandoned' = TRUE
    /\ UNCHANGED <<sent, pending_requests, completed_requests, requests, completed,
                   canceled, worker_vars, stop_requested, mpc, tasks, current, called>>

\* RunFrame is called.
RunFrame ==
    /\ mpc = "idle"
    /\ mpc' = "pop"
    /\ tasks' = 0
    /\ UNCHANGED <<sent, pending_requests, completed_requests, requests, control_vars,
                   worker_vars, stop_requested, current, called, abandoned>>

\* Mutant of MoreTasks: one task too many.
MoreTasksOffByOne == tasks <= kMaxTasksExecPerFrame /\ completed_requests # <<>>

MoreTasks == tasks < kMaxTasksExecPerFrame /\ completed_requests # <<>>

\* Mutant of RunFrameTask: forgotten requests are delivered too.
RunFrameTaskForgotten ==
    /\ mpc = "pop" /\ MoreTasks
    /\ LET r == Head(completed_requests) IN
          /\ completed_requests' = Tail(completed_requests)
          /\ completed' = completed \cup {r}
          /\ tasks' = tasks + 1
          /\ mpc' = "callback" /\ current' = r /\ called' = Append(called, r)
    /\ UNCHANGED <<sent, pending_requests, requests, forgotten, canceled,
                   worker_vars, stop_requested, abandoned>>

\* One turn of RunFrame's loop: pop a result (TryPopCompletedRequest), mark
\* the request completed, and call back unless it was forgotten.
RunFrameTask ==
    /\ mpc = "pop" /\ MoreTasks
    /\ LET r == Head(completed_requests) IN
          /\ completed_requests' = Tail(completed_requests)
          /\ completed' = completed \cup {r}
          /\ tasks' = tasks + 1
          /\ \/ /\ r \notin forgotten
                /\ mpc' = "callback" /\ current' = r /\ called' = Append(called, r)
             \/ /\ r \in forgotten
                /\ UNCHANGED <<mpc, current, called>>
    /\ UNCHANGED <<sent, pending_requests, requests, forgotten, canceled,
                   worker_vars, stop_requested, abandoned>>

\* on_complete returns.
CallbackReturns ==
    /\ mpc = "callback"
    /\ mpc' = "pop" /\ current' = 0
    /\ UNCHANGED <<sent, pending_requests, completed_requests, requests, control_vars,
                   worker_vars, stop_requested, tasks, called, abandoned>>

\* The loop ends; completed requests are erased from requests_.  An engine set
\* aside is destroyed once it has no active request
\* (RunCleanupFrameForForgottenEasyHttp); the destructor calls RunFrame again
\* until nothing is left.
RunFrameSweep ==
    /\ mpc = "pop" /\ ~MoreTasks
    /\ requests' = requests \ completed
    /\ tasks' = 0
    /\ mpc' = CASE stop_requested -> IF completed_requests = <<>> /\ requests' = {}
                                     THEN "gone" ELSE "pop"
                [] ~stop_requested -> IF abandoned /\ requests' = {}
                                      THEN "destroy" ELSE "idle"
    /\ UNCHANGED <<sent, pending_requests, completed_requests, control_vars,
                   worker_vars, stop_requested, current, called, abandoned>>

\* ~EasyHttp: stop_requested_ is set under the lock.
Destroy ==
    /\ mpc = "destroy"
    /\ stop_requested' = TRUE
    /\ mpc' = "notify_all"
    /\ UNCHANGED <<sent, pending_requests, completed_requests, requests, control_vars,
                   worker_vars, tasks, current, called, abandoned>>

NotifyAll ==
    /\ mpc = "notify_all"
    /\ wpc' = Wake(Worker)
    /\ mpc' = "join"
    /\ UNCHANGED <<sent, pending_requests, completed_requests, requests, control_vars,
                   wreq, code, stop_requested, tasks, current, called, abandoned>>

\* Mutant of JoinWorkers: the threads are not waited for.
JoinWorkersDetached ==
    /\ mpc = "join"
    /\ mpc' = "pop" /\ tasks' = 0
    /\ UNCHANGED <<sent, pending_requests, completed_requests, requests, control_vars,
                   worker_vars, stop_requested, current, called, abandoned>>

\* Every worker_thread.join() has returned.
JoinWorkers ==
    /\ mpc = "join"
    /\ \A w \in Worker : wpc[w] = "exited"
    /\ mpc' = "pop" /\ tasks' = 0
    /\ UNCHANGED <<sent, pending_requests, completed_requests, requests, control_vars,
                   worker_vars, stop_requested, current, called, abandoned>>

-----------------------------------------------------------------------------
(* The workers. *)

engine_vars == <<sent, requests, control_vars, stop_requested, main_vars>>

\* Worker w moves from one label to the next.
Goto(w, from, to) ==
    /\ wpc[w] = from
    /\ wpc' = [wpc EXCEPT ![w] = to]

\* Worker w moves on to post its response, whose error code is c.
Respond(w, from, c) ==
    /\ Goto(w, from, "respond")
    /\ code' = [code EXCEPT ![wreq[w]] = c]
    /\ UNCHANGED <<pending_requests, completed_requests, wreq, engine_vars>>

Proceed(w, from, to) ==
    /\ Goto(w, from, to)
    /\ UNCHANGED <<pending_requests, completed_requests, wreq, code, engine_vars>>

\* The wait's predicate is false: the worker sleeps on the condition variable.
WaitForRequest(w) ==
    /\ pending_requests = <<>> /\ ~stop_requested
    /\ Proceed(w, "ready", "waiting")

\* A condition variable may wake without a notification.
SpuriousWakeup(w) == Proceed(w, "waiting", "ready")

\* Mutant of ExitWorker: a worker leaves with requests still pending.
ExitWorkerEarly(w) ==
    /\ stop_requested
    /\ Proceed(w, "ready", "exited")

\* WorkerLoop returns: it must stop and nothing is pending.
ExitWorker(w) ==
    /\ pending_requests = <<>> /\ stop_requested
    /\ Proceed(w, "ready", "exited")

\* Mutant of TakeRequest: the newest request is taken, not the oldest.
TakeRequestNewest(w) ==
    /\ pending_requests # <<>>
    /\ Goto(w, "ready", "popped")
    /\ wreq' = [wreq EXCEPT ![w] = pending_requests[Len(pending_requests)]]
    /\ pending_requests' = SubSeq(pending_requests, 1, Len(pending_requests) - 1)
    /\ UNCHANGED <<completed_requests, code, engine_vars>>

\* Mutant of TakeRequest: the request stays in the queue.
TakeRequestNoPop(w) ==
    /\ pending_requests # <<>>
    /\ Goto(w, "ready", "popped")
    /\ wreq' = [wreq EXCEPT ![w] = Head(pending_requests)]
    /\ UNCHANGED <<pending_requests, completed_requests, code, engine_vars>>

\* The oldest request is moved out of pending_requests_.
TakeRequest(w) ==
    /\ pending_requests # <<>>
    /\ Goto(w, "ready", "popped")
    /\ wreq' = [wreq EXCEPT ![w] = Head(pending_requests)]
    /\ pending_requests' = Tail(pending_requests)
    /\ UNCHANGED <<completed_requests, code, engine_vars>>

\* Mutant of CancelCheck: the flag is only looked at after the transfer.
CancelCheckLate(w, from, to) ==
    IF from = "finished" /\ wreq[w] \in canceled
    THEN Respond(w, from, "REQUEST_CANCELLED")
    ELSE Proceed(w, from, to)

\* A checkpoint: the worker reads the request's canceled flag.
CancelCheck(w, from, to) ==
    IF wreq[w] \in canceled
    THEN Respond(w, from, "REQUEST_CANCELLED")
    ELSE Proceed(w, from, to)

\* WorkerLoop reads the flag before it dispatches.
CheckBeforeDispatch(w) == CancelCheck(w, "popped", "getsession")

\* session_cache_.GetSession: no session for a URL without a host.  Whether a
\* relative URL has one depends on what the thread parsed before it
\* (CprSessionCache), so here either may happen.
GetSession(w) ==
    \/ /\ wreq[w] \in InvalidUrl
       /\ Respond(w, "getsession", "INVALID_URL_FORMAT")
    \/ Proceed(w, "getsession", "session")

\* SendRequest reads the flag again; on cancel the session goes back.
CheckBeforeTransfer(w) == CancelCheck(w, "session", "prepare")

\* SendHttpRequest, FtpUpload, FtpDownload up to the transfer: one more check,
\* and the local file is opened, before the check (FTP) or after it (HTTP).
OpenFileFails(w) ==
    /\ wpc[w] = "prepare" /\ Method[wreq[w]] # "Http"
    /\ Method[wreq[w]] = "HttpDownload" => wreq[w] \notin canceled
    /\ Respond(w, "prepare", "INTERNAL_ERROR")

PrepareTransfer(w) == CancelCheck(w, "prepare", "transfer")

\* The blocking transfer returns.  With a peer that never answers it returns
\* only because the progress callback, which curl keeps calling, sees the
\* canceled flag.
Transfer(w) ==
    /\ wreq[w] \notin Stalled \/ wreq[w] \in canceled
    /\ Goto(w, "transfer", "finished")
    /\ \E c \in {"OK", "FAILED"} :
          /\ wreq[w] \in Stalled => c = "FAILED"
          /\ code' = [code EXCEPT ![wreq[w]] = c]
    /\ UNCHANGED <<pending_requests, completed_requests, wreq, engine_vars>>

\* Mutant of CheckAfterTransfer: the transfer's own result is kept.
NoCheckAfterTransfer(w) == Proceed(w, "finished", "respond")

\* The flag is read once more when the transfer is over.
CheckAfterTransfer(w) == CancelCheck(w, "finished", "respond")

\* The response is posted under completed_requests_mutex_.
PostResponse(w) ==
    /\ Goto(w, "respond", "ready")
    /\ completed_requests' = Append(completed_requests, wreq[w])
    /\ wreq' = [wreq EXCEPT ![w] = 0]
    /\ UNCHANGED <<pending_requests, code, engine_vars>>

-----------------------------------------------------------------------------

\* What a worker thread does by itself once it is scheduled.
WorkerStep(w) ==
    \/ WaitForRequest(w) \/ ExitWorker(w) \/ TakeRequest(w)
    \/ CheckBeforeDispatch(w) \/ GetSession(w) \/ CheckBeforeTransfer(w)
    \/ OpenFileFails(w) \/ PrepareTransfer(w) \/ Transfer(w)
    \/ CheckAfterTransfer(w) \/ PostResponse(w)

\* What the main thread does by itself: plugin code returns, frames keep coming,
\* a call under way goes on.
MainStep ==
    \/ NotifyOne \/ RunFrame \/ RunFrameTask \/ CallbackReturns \/ RunFrameSweep
    \/ Destroy \/ NotifyAll \/ JoinWorkers

\* What plugins and the server decide.
Choice ==
    \/ SendRequest
    \/ \E r \in Request : CancelRequest(r)
    \/ CancelAllRequests \/ ForgetAllRequests

\* The engine is destroyed: nothing happens any more.
Terminated == mpc = "gone" /\ UNCHANGED vars

Next ==
    \/ Choice
    \/ MainStep
    \/ Terminated
    \/ \E w \in Worker : WorkerStep(w) \/ SpuriousWakeup(w)

Spec == Init /\ [][Next]_vars

\* The operating system schedules every thread; StartFrame keeps calling
\* RunFrame, and a callback returns.
Fairness ==
    /\ \A w \in Worker : WF_vars(WorkerStep(w))
    /\ WF_vars(MainStep)

FairSpec == Spec /\ Fairness

-----------------------------------------------------------------------------
(* Correctness *)

Elements(seq) == {seq[i] : i \in 1 .. Len(seq)}
Distinct(seq) == \A i, j \in 1 .. Len(seq) : seq[i] = seq[j] => i = j
Taken == {wreq[w] : w \in Worker} \ {0}

\* Types of the engine's queues, flags and program counters.
TypeOK ==
    /\ sent \in 0 .. MaxRequests
    /\ pending_requests \in Seq(Request)
    /\ completed_requests \in Seq(Request)
    /\ requests \subseteq Request
    /\ completed \subseteq Request
    /\ forgotten \subseteq Request
    /\ canceled \subseteq Request
    /\ code \in [Request -> ErrorCode \cup {"none"}]
    /\ wpc \in [Worker -> WorkerLabel]
    /\ wreq \in [Worker -> Request \cup {0}]
    /\ stop_requested \in BOOLEAN
    /\ mpc \in MainLabel
    /\ tasks \in 0 .. kMaxTasksExecPerFrame
    /\ current \in Request \cup {0}
    /\ called \in Seq(Request)
    /\ abandoned \in BOOLEAN

\* Every request sent is in exactly one place: waiting in pending_requests_,
\* taken by one worker, waiting in completed_requests_, or completed.  None is
\* lost between the two queues, none is ever in them twice, whatever the
\* workers, the callbacks and the destructor do.
InOnePlace ==
    /\ Distinct(pending_requests) /\ Distinct(completed_requests)
    /\ \A v, w \in Worker : v # w /\ wreq[v] # 0 => wreq[v] # wreq[w]
    /\ Elements(pending_requests) \cap Taken = {}
    /\ Elements(pending_requests) \cap Elements(completed_requests) = {}
    /\ Taken \cap Elements(completed_requests) = {}
    /\ completed \cap (Elements(pending_requests) \cup Taken
                          \cup Elements(completed_requests)) = {}
    /\ Sent = Elements(pending_requests) \cup Taken
                 \cup Elements(completed_requests) \cup completed

\* GetActiveRequestCount() counts requests_: it never misses a request that is
\* not completed (RunCleanupFrameForForgottenEasyHttp destroys an engine, and
\* ~EasyHttp stops draining, on the strength of a count of zero).
ActiveTracked ==
    /\ Sent \ completed \subseteq requests
    /\ mpc \in {"idle", "destroy", "gone"} => requests = Sent \ completed

\* No callback is called twice, none is called for a forgotten request, and a
\* request that is completed without one was forgotten.
CalledOnce ==
    /\ Distinct(called)
    /\ Elements(called) = completed \ forgotten

\* ~EasyHttp returns only when every request it ever accepted is completed, no
\* worker runs, and both queues are empty.
DestroyedClean ==
    mpc = "gone" => /\ completed = Sent
                    /\ \A w \in Worker : wpc[w] = "exited"
                    /\ pending_requests = <<>> /\ completed_requests = <<>>

\* Workers take requests in the order in which they were sent, however many
\* workers there are and whatever callbacks send meanwhile: nothing that was sent
\* before a pending request is still pending behind it.
TakenInOrder ==
    /\ \A i, j \in 1 .. Len(pending_requests) :
          i < j => pending_requests[i] < pending_requests[j]
    /\ \A r \in Elements(pending_requests), s \in Sent \ Elements(pending_requests) :
          s < r

\* The requests sent before r that are not completed yet.
Overtaken(r) == {s \in Sent \ completed : s < r}

\* Requests are served in the order they were sent as far as the pool allows:
\* when RunFrame completes a request, fewer earlier ones than there are workers are
\* still to come, however long those take.  With one worker there is none: that
\* makes a queue sequential ("in the order they were called", easy_http.inc:293).
FirstComeFirstServed ==
    /\ TakenInOrder
    /\ \A r \in completed : Cardinality(Overtaken(r)) < Cardinality(Worker)

\* A request cancelled while it waits in pending_requests_ never reaches the
\* network: no worker ever starts its transfer.
CancelledBeforeDispatch ==
    \A r \in Request :
        [](r \in canceled \cap Elements(pending_requests)
              => [](\A w \in Worker : wreq[w] = r => wpc[w] # "transfer"))

\* The worker has not yet made its last check of the canceled flag.
Undecided(r) ==
    \/ r \in Elements(pending_requests)
    \/ \E w \in Worker : wreq[w] = r /\ wpc[w] # "respond"

\* A cancel that arrives before the worker's last check is never lost: whatever
\* the transfer returned, the callback sees a cancellation or an error found
\* before the transfer began, never the transfer's own result.
CancelNotLost ==
    \A r \in Request :
        [](r \in canceled /\ Undecided(r)
              => [](r \in completed => code[r] \notin {"OK", "FAILED"}))

\* No wake-up is lost: once the requests whose peers never answer are cancelled,
\* every request sent completes, no timeout needed, although notify_one is called
\* after the unlock and workers may be asleep, busy or about to sleep.  The
\* progress callback ends the stalled transfers and the workers go on.
EverySentCompletes ==
    \A r \in Request :
        r \in Sent /\ Stalled \subseteq canceled ~> r \in completed

\* Cancelling everything and destroying the engine ends, with peers that never
\* answer too: a map change does not hang in ~EasyHttp.
DestroyEnds == mpc = "destroy" ~> mpc = "gone"

-----------------------------------------------------------------------------
(* The engine implements RequestLifecycle. *)

lifecycle_status ==
    [r \in Request |->
        CASE r \notin Sent                                -> "unsent"
          [] r \in completed /\ r \in Elements(called)     -> "called"
          [] r \in completed /\ r \notin Elements(called)  -> "dropped"
          [] r \in Sent \ completed /\ r \in forgotten    -> "forgotten"
          [] r \in Sent \ completed /\ r \notin forgotten -> "active"]

lifecycle_engine == IF mpc = "gone" THEN "gone"
                    ELSE IF abandoned THEN "abandoned" ELSE "open"

Lifecycle == INSTANCE RequestLifecycle
                WITH status <- lifecycle_status, engine <- lifecycle_engine

\* The threads, queues and flags of EasyHttp keep the promise of the interface:
\* one callback per request or none after a forget, nothing owed at the end.
ImplementsLifecycle == Lifecycle!Spec
=============================================================================
