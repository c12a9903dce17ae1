--------------------------- MODULE EasyHttpModule ---------------------------
(***************************************************************************)
(* EasyHttpModule and the natives and engine hooks of module.cpp that      *)
(* drive it: the tables of options, requests and queues, the two engines   *)
(* of a queue, callbacks that run plugin code re-entrantly, the map change *)
(* (ServerDeactivate) and the unload (OnAmxxDetach, GameShutdown).         *)
(*                                                                         *)
(* An engine is used through what EasyHttp was shown to implement: a       *)
(* request sent to it is worked on by its threads, its response is posted, *)
(* and RunFrame or the destructor calls back once, or never after a        *)
(* forget.  Everything but Start and Finish runs on the main thread: phase *)
(* says where it is, and current is the request whose callback runs on top *)
(* of that, if any.                                                        *)
(***************************************************************************)
EXTENDS Integers, FiniteSets

CONSTANTS
    MaxRequests,  \* bound: requests sent in a behaviour
    MaxOptions,   \* bound: options objects created in a behaviour
    MaxQueues,    \* bound: largest queue handle
    MaxEngines,   \* bound: engines created in a behaviour
    MaxMaps       \* bound: maps played

ASSUME ModuleBounds ==
    /\ MaxRequests \in Nat /\ MaxOptions \in Nat /\ MaxEngines \in Nat
    /\ MaxQueues \in Nat \ {0} /\ MaxMaps \in Nat \ {0}

Main == 1   \* QueueId::Main
Request == 1 .. MaxRequests
Engine == 1 .. MaxEngines
Queue == 1 .. MaxQueues
PluginEndBehaviour == {"CancelRequests", "ForgetRequests"}

VARIABLES
    options,   \* options_: handle -> [uid, queue_id, behaviour]
    requests,  \* requests_: handle -> the request it stands for
    packs,     \* easy_http_pack_: queue -> behaviour -> its engine, or 0
    used,      \* how many handles each of these tables has used so far
    engine_of_main, \* the engines created for the main queue (six threads)
    forgotten_engines, \* forgotten_easy_http_
    req,       \* what is known of each request
    sent, created, engines, \* number of requests, options objects, engines so far
    phase,     \* where the main thread is
    todo,      \* queues that the map change's loop has still to visit
    visiting,  \* the queue it is at, or 0
    dying,     \* the engine whose destructor runs, or 0
    current,   \* the request whose callback runs, or 0
    map,       \* the map being played
    alive      \* g_EasyHttpModule is not null

table_vars == <<options, requests, created, used>>
engine_vars == <<packs, engine_of_main, forgotten_engines, engines>>
loop_vars == <<phase, todo, visiting, dying, map, alive>>
vars == <<table_vars, engine_vars, req, sent, current, loop_vars>>

NoRequest == [state |-> "unsent", handle |-> 0, options_id |-> 0, options_uid |-> 0,
              queue |-> 0, engine |-> 0, canceled |-> FALSE, forgotten |-> FALSE,
              map |-> 0, late |-> FALSE]

Phase == {"play", "frame", "drain", "reset", "forget", "remove",
          "cleanup", "crashed", "gone"}

Sent == 1 .. sent
\* Requests an engine still has to deliver.
Unfinished == {"queued", "running", "posted"}
Active(e) == {r \in Sent : req[r].engine = e /\ req[r].state \in Unfinished}

Init ==
    /\ options = [h \in {} |-> h]
    /\ requests = [h \in {} |-> h]
    /\ packs = [q \in {Main} |-> [b \in PluginEndBehaviour |-> 0]]
    /\ used = [options |-> 0, requests |-> 0, packs |-> 1]
    /\ engine_of_main = {}
    /\ forgotten_engines = {}
    /\ req = [r \in Request |-> NoRequest]
    /\ sent = 0 /\ created = 0 /\ engines = 0
    /\ phase = "play" /\ todo = {} /\ visiting = 0 /\ dying = 0 /\ current = 0
    /\ map = 1
    /\ alive = TRUE

-----------------------------------------------------------------------------
(* Natives: plugin code runs between frames and inside callbacks. *)

PluginRuns == alive /\ (current # 0 \/ phase = "play")

\* ContainerWithHandles::GetFreeHandle: any handle that was removed from the
\* table, which of them is up to the hash set, or else the next one.
FreeHandles(table, n) == IF 1 .. n \subseteq DOMAIN table THEN {n + 1}
                                                        ELSE 1 .. n \ DOMAIN table
HighWater(n, h) == IF h > n THEN h ELSE n

With(table, h, v) == [k \in DOMAIN table \cup {h} |-> IF k = h THEN v ELSE table[k]]
Without(table, h) == [k \in DOMAIN table \ {h} |-> table[k]]

NewOptions(q, b) == [uid |-> created + 1, queue_id |-> q, behaviour |-> b]

\* ezhttp_create_options, then the setters for queue and end behaviour.
CreateOptions(q, b) ==
    /\ PluginRuns
    /\ created < MaxOptions
    /\ \E h \in FreeHandles(options, used.options) :
          /\ options' = With(options, h, NewOptions(q, b))
          /\ used' = [used EXCEPT !.options = HighWater(@, h)]
    /\ created' = created + 1
    /\ UNCHANGED <<requests, engine_vars, req, sent, current, loop_vars>>

\* ezhttp_destroy_options: any plugin, any handle in use.
DestroyOptions(h) ==
    /\ PluginRuns
    /\ h \in DOMAIN options
    /\ options' = Without(options, h)
    /\ UNCHANGED <<requests, created, used, engine_vars, req, sent, current, loop_vars>>

\* ezhttp_create_queue.  A queue created by a callback while the map change
\* walks the hash table may or may not be visited by that walk.  (A table that
\* grows past thirteen queues meanwhile is rehashed under the walk; MaxQueues
\* stays below that.)
CreateQueue ==
    /\ PluginRuns
    /\ Cardinality(DOMAIN packs) < MaxQueues
    /\ \E q \in FreeHandles(packs, used.packs) :
          /\ used' = [used EXCEPT !.packs = HighWater(@, q)]
          /\ packs' = With(packs, q, [b \in PluginEndBehaviour |-> 0])
          /\ IF phase \in {"reset", "forget", "remove"}
             THEN todo' \in {todo, todo \cup {q}}
             ELSE todo' = todo
    /\ UNCHANGED <<options, requests, created, engine_of_main, forgotten_engines,
                   engines, req, sent, current, phase, visiting, dying, map, alive>>

\* GetEasyHttp: the pack's engine for a behaviour, created when it is missing.
GetEasyHttp(q, b, e) ==
    IF packs[q][b] # 0
    THEN /\ e = packs[q][b]
         /\ UNCHANGED engine_vars
    ELSE /\ engines < MaxEngines
         /\ e = engines + 1
         /\ engines' = engines + 1
         /\ packs' = [packs EXCEPT ![q][b] = e]
         /\ engine_of_main' = IF q = Main THEN engine_of_main \cup {e}
                                          ELSE engine_of_main
         /\ UNCHANGED forgotten_engines

\* ezhttp_get, _post, ...: options_id 0 stands for new default options; a queue
\* that does not exist stands for the main queue.
SendRequest(h, e) ==
    /\ PluginRuns
    /\ sent < MaxRequests
    /\ h = 0 => created < MaxOptions
    /\ \E id \in IF h = 0 THEN FreeHandles(options, used.options) ELSE {h},
         rh \in FreeHandles(requests, used.requests) :
          LET opt == IF h = 0 THEN NewOptions(Main, "CancelRequests") ELSE options[h]
              q   == IF opt.queue_id \in DOMAIN packs THEN opt.queue_id ELSE Main
          IN /\ GetEasyHttp(q, opt.behaviour, e)
             /\ options' = With(options, id, opt)
             /\ requests' = With(requests, rh, sent + 1)
             /\ used' = [used EXCEPT !.options = HighWater(@, id),
                                     !.requests = HighWater(@, rh)]
             /\ req' = [req EXCEPT ![sent + 1] =
                   [NoRequest EXCEPT !.state = "queued", !.handle = rh,
                                     !.options_id = id, !.options_uid = opt.uid,
                                     !.queue = q, !.engine = e, !.map = map,
                                     !.late = phase \notin {"play", "frame", "drain"}]]
    /\ created' = IF h = 0 THEN created + 1 ELSE created
    /\ sent' = sent + 1
    /\ UNCHANGED <<current, loop_vars>>

\* ezhttp_cancel_request on a handle in use.
CancelRequest(h) ==
    /\ PluginRuns
    /\ h \in DOMAIN requests
    /\ req' = [req EXCEPT ![requests[h]].canceled = TRUE]
    /\ UNCHANGED <<table_vars, engine_vars, sent, current, loop_vars>>

-----------------------------------------------------------------------------
(* Worker threads, as EasyHttp lets them appear. *)

thread_unchanged == <<table_vars, engine_vars, sent, current, loop_vars>>

\* A user queue's engine has one thread and takes its requests in order.
Start(r) ==
    /\ req[r].state = "queued"
    /\ LET e == req[r].engine IN
          e \notin engine_of_main =>
              \A s \in Sent \ {r} : req[s].engine = e =>
                  /\ req[s].state # "running"
                  /\ s < r => req[s].state # "queued"
    /\ req' = [req EXCEPT ![r].state = "running"]
    /\ UNCHANGED thread_unchanged

\* The transfer ends, or the canceled flag stops it, and the response is posted.
Finish(r) ==
    /\ req[r].state = "running"
    /\ req' = [req EXCEPT ![r].state = "posted"]
    /\ UNCHANGED thread_unchanged

-----------------------------------------------------------------------------
(* Delivery. *)

\* Mutant of Call: the forgotten flag is not looked at.
CallForgotten(r) ==
    /\ current = 0
    /\ req[r].state = "posted"
    /\ current' = r
    /\ req' = [req EXCEPT ![r].state = "calling"]
    /\ UNCHANGED <<table_vars, engine_vars, sent, loop_vars>>

\* RunFrame of an engine, or its destructor, pops a response and calls back:
\* cb_proxy stores the response in the request's entry and runs the forward.
Call(r) ==
    /\ current = 0
    /\ req[r].state = "posted" /\ ~req[r].forgotten
    /\ current' = r
    /\ req' = [req EXCEPT ![r].state = "calling"]
    /\ UNCHANGED <<table_vars, engine_vars, sent, loop_vars>>

\* A forgotten request is popped in silence; its table entries stay.
Drop(r) ==
    /\ current = 0
    /\ req[r].state = "posted" /\ req[r].forgotten
    /\ req' = [req EXCEPT ![r].state = "dropped"]
    /\ UNCHANGED <<table_vars, engine_vars, sent, current, loop_vars>>

\* Mutant of CallbackReturns: the request keeps its entry.
CallbackReturnsLeaks ==
    /\ current # 0 /\ alive
    /\ options' = Without(options, req[current].options_id)
    /\ req' = [req EXCEPT ![current].state = "called"]
    /\ current' = 0
    /\ UNCHANGED <<requests, created, used, engine_vars, sent, loop_vars>>

\* The forward returns; on_complete deletes the request and whatever options
\* object is then at its options_id.
CallbackReturns ==
    /\ current # 0 /\ alive
    /\ options' = Without(options, req[current].options_id)
    /\ requests' = Without(requests, req[current].handle)
    /\ req' = [req EXCEPT ![current].state = "called"]
    /\ current' = 0
    /\ UNCHANGED <<created, used, engine_vars, sent, loop_vars>>

\* Without the module on_complete's g_EasyHttpModule->DeleteRequest
\* dereferences null.
CallbackCrashes ==
    /\ current # 0 /\ ~alive
    /\ phase' = "crashed"
    /\ UNCHANGED <<table_vars, engine_vars, req, sent, current, todo, visiting,
                   dying, map, alive>>

\* Engines that RunFrame serves: those of the packs, and those set aside.
Served == {packs[q][b] : q \in DOMAIN packs, b \in PluginEndBehaviour}
             \cup forgotten_engines

\* StartFrame.
StartFrame ==
    /\ phase = "play" /\ current = 0 /\ alive
    /\ phase' = "frame"
    /\ UNCHANGED <<table_vars, engine_vars, req, sent, current, todo, visiting,
                   dying, map, alive>>

FrameCall(r) ==
    /\ phase \in {"frame", "drain"}
    /\ req[r].engine \in Served
    /\ Call(r) \/ Drop(r)

\* The frame ends with nothing posted (an engine delivers six results per
\* frame, more than MaxRequests; a result posted too late for this frame is, to
\* everybody, posted after it), and engines set aside that have nothing active
\* are destroyed.  After the last frame of the map the loop over the queues
\* begins.
EndFrame ==
    /\ phase \in {"frame", "drain"} /\ current = 0
    /\ \A r \in Sent : req[r].engine \in Served => req[r].state # "posted"
    /\ forgotten_engines' = {e \in forgotten_engines : Active(e) # {}}
    /\ IF phase = "frame"
       THEN phase' = "play" /\ UNCHANGED todo
       ELSE phase' = "reset" /\ todo' = DOMAIN packs
    /\ UNCHANGED <<table_vars, packs, engine_of_main, engines, req, sent, current,
                   visiting, dying, map, alive>>

-----------------------------------------------------------------------------
(* Map change and unload: ResetMainAndRemoveUsersQueues. *)

\* ServerDeactivate: twenty frames first, then the loop over the queues.
ServerDeactivate ==
    /\ phase = "play" /\ current = 0 /\ alive /\ map < MaxMaps
    /\ phase' = "drain"
    /\ UNCHANGED <<table_vars, engine_vars, req, sent, current, todo, visiting,
                   dying, map, alive>>

\* OnAmxxDetach, GameShutdown: unique_ptr::reset clears g_EasyHttpModule, then
\* ~EasyHttpModule runs the same loop.
DestroyModules ==
    /\ phase = "play" /\ current = 0 /\ alive
    /\ alive' = FALSE
    /\ phase' = "reset" /\ todo' = DOMAIN packs
    /\ UNCHANGED <<table_vars, engine_vars, req, sent, current, visiting, dying, map>>

\* The main thread is in the loop and no callback and no destructor runs.
Looping == current = 0 /\ dying = 0

\* Mutant of VisitQueue: the main queue keeps its engine.
VisitQueueUsersOnly(q) ==
    /\ phase = "reset" /\ Looping /\ q \in todo
    /\ todo' = todo \ {q} /\ visiting' = q /\ phase' = "forget"
    /\ LET e == packs[q]["CancelRequests"] IN
          /\ req' = [r \in Request |-> IF r \in Active(e)
                                       THEN [req[r] EXCEPT !.canceled = TRUE]
                                       ELSE req[r]]
          /\ packs' = [packs EXCEPT ![q]["CancelRequests"] = IF q = Main THEN @ ELSE 0]
          /\ dying' = IF q = Main THEN 0 ELSE e
    /\ UNCHANGED <<table_vars, engine_of_main, forgotten_engines, engines, sent,
                   current, map, alive>>

\* Mutant of VisitQueue: the engine is destroyed without a cancel.
VisitQueueNoCancel(q) ==
    /\ phase = "reset" /\ Looping /\ q \in todo
    /\ todo' = todo \ {q} /\ visiting' = q /\ phase' = "forget"
    /\ packs' = [packs EXCEPT ![q]["CancelRequests"] = 0]
    /\ dying' = packs[q]["CancelRequests"]
    /\ UNCHANGED <<table_vars, engine_of_main, forgotten_engines, engines, req, sent,
                   current, map, alive>>

\* One queue: its terminating engine cancels all requests, leaves the pack and
\* is destroyed.  (The new engine that the main queue gets has no requests and
\* is not told apart from the one GetEasyHttp would create.)
VisitQueue(q) ==
    /\ phase = "reset" /\ Looping /\ q \in todo
    /\ todo' = todo \ {q} /\ visiting' = q /\ phase' = "forget"
    /\ LET e == packs[q]["CancelRequests"] IN
          /\ req' = [r \in Request |-> IF r \in Active(e)
                                       THEN [req[r] EXCEPT !.canceled = TRUE]
                                       ELSE req[r]]
          /\ packs' = [packs EXCEPT ![q]["CancelRequests"] = 0]
          /\ dying' = e
    /\ UNCHANGED <<table_vars, engine_of_main, forgotten_engines, engines, sent,
                   current, map, alive>>

\* ~EasyHttp calls back for every request of the engine, then returns.
DestructorCall(r) ==
    /\ dying # 0 /\ req[r].engine = dying
    /\ Call(r) \/ Drop(r)

DestructorReturns ==
    /\ dying # 0 /\ current = 0 /\ Active(dying) = {}
    /\ dying' = 0
    /\ UNCHANGED <<table_vars, engine_vars, req, sent, current, phase, todo,
                   visiting, map, alive>>

\* Then its forgettable engine forgets its requests and is set aside.
ForgetQueue ==
    /\ phase = "forget" /\ Looping
    /\ LET e == packs[visiting]["ForgetRequests"] IN
          /\ req' = [r \in Request |-> IF r \in Active(e)
                                       THEN [req[r] EXCEPT !.forgotten = TRUE]
                                       ELSE req[r]]
          /\ packs' = [packs EXCEPT ![visiting]["ForgetRequests"] = 0]
          /\ forgotten_engines' = forgotten_engines \cup ({e} \ {0})
    /\ IF visiting = Main
       THEN phase' = "reset" /\ visiting' = 0
       ELSE phase' = "remove" /\ UNCHANGED visiting
    /\ UNCHANGED <<table_vars, engine_of_main, engines, sent, current, todo, dying,
                   map, alive>>

\* Mutant of RemoveQueue: an engine re-created meanwhile is lost.
RemoveQueueForgetsEngine ==
    /\ phase = "remove" /\ Looping
    /\ packs' = Without(packs, visiting)
    /\ visiting' = 0 /\ phase' = "reset"
    /\ UNCHANGED <<table_vars, engine_of_main, forgotten_engines, engines, req, sent,
                   current, todo, dying, map, alive>>

\* Mutant of RemoveQueue: the main queue goes as well.
RemoveQueueMain ==
    /\ phase = "remove" /\ Looping
    /\ packs' = Without(Without(packs, visiting), Main)
    /\ dying' = packs[visiting]["CancelRequests"]
    /\ visiting' = 0 /\ phase' = "reset"
    /\ UNCHANGED <<table_vars, engine_of_main, forgotten_engines, engines, req, sent,
                   current, todo, map, alive>>

\* A user queue is removed.  A terminating engine that a callback re-created in
\* the pack meanwhile is destroyed with it, without a cancel.
RemoveQueue ==
    /\ phase = "remove" /\ Looping
    /\ packs' = Without(packs, visiting)
    /\ dying' = packs[visiting]["CancelRequests"]
    /\ visiting' = 0 /\ phase' = "reset"
    /\ UNCHANGED <<table_vars, engine_of_main, forgotten_engines, engines, req, sent,
                   current, todo, map, alive>>

\* The loop ends: the next map starts, or ~EasyHttpModule waits for the engines
\* that were set aside.
EndReset ==
    /\ phase = "reset" /\ Looping /\ todo = {}
    /\ IF alive THEN phase' = "play" /\ map' = map + 1
                ELSE phase' = "cleanup" /\ UNCHANGED map
    /\ UNCHANGED <<table_vars, engine_vars, req, sent, current, todo, visiting,
                   dying, alive>>

CleanupDrop(r) ==
    /\ phase = "cleanup"
    /\ req[r].engine \in forgotten_engines
    /\ Drop(r)

EndCleanup ==
    /\ phase = "cleanup"
    /\ \A e \in forgotten_engines : Active(e) = {}
    /\ phase' = "gone"
    /\ forgotten_engines' = {}
    /\ UNCHANGED <<table_vars, packs, engine_of_main, engines, req, sent, current,
                   todo, visiting, dying, map, alive>>

\* The destructor's busy loop while a request of such an engine is unfinished.
CleanupSpins == phase = "cleanup" /\ UNCHANGED vars

Terminated == phase \in {"crashed", "gone"} /\ UNCHANGED vars

-----------------------------------------------------------------------------

Native ==
    \/ \E q \in Queue, b \in PluginEndBehaviour : CreateOptions(q, b)
    \/ \E h \in DOMAIN options : DestroyOptions(h)
    \/ CreateQueue
    \/ \E h \in DOMAIN options \cup {0}, e \in Engine : SendRequest(h, e)
    \/ \E h \in DOMAIN requests : CancelRequest(h)

MainStep ==
    \/ \E r \in Request : FrameCall(r) \/ DestructorCall(r) \/ CleanupDrop(r)
    \/ CallbackReturns \/ CallbackCrashes
    \/ StartFrame \/ EndFrame
    \/ (\E q \in Queue : VisitQueue(q)) \/ ForgetQueue \/ RemoveQueue
    \/ DestructorReturns \/ EndReset \/ EndCleanup \/ CleanupSpins

WorkerStep(r) == Start(r) \/ Finish(r)

Next ==
    \/ Native
    \/ ServerDeactivate
    \/ DestroyModules
    \/ MainStep
    \/ \E r \in Request : WorkerStep(r)
    \/ Terminated

Spec == Init /\ [][Next]_vars

\* The main thread finishes what it began and threads are scheduled.  A transfer
\* need never end, for its peer may stall, unless it is cancelled.
FairSpec ==
    /\ Spec
    /\ WF_vars(MainStep)
    /\ \A r \in Request : WF_vars(Start(r)) /\ WF_vars(req[r].canceled /\ Finish(r))

-----------------------------------------------------------------------------
(* Correctness *)

\* Types of the module's tables and of the main thread's position.
TypeOK ==
    /\ DOMAIN options \subseteq 1 .. MaxOptions
    /\ \A h \in DOMAIN options :
          options[h] \in [uid : 1 .. created, queue_id : Queue,
                          behaviour : PluginEndBehaviour]
    /\ requests \in [DOMAIN requests -> Sent]
    /\ packs \in [DOMAIN packs -> [PluginEndBehaviour -> 0 .. engines]]
    /\ used \in [options : 0 .. MaxOptions, requests : 0 .. MaxRequests, packs : Queue]
    /\ Main \in DOMAIN packs /\ DOMAIN packs \subseteq Queue
    /\ engine_of_main \subseteq 1 .. engines
    /\ forgotten_engines \subseteq 1 .. engines
    /\ sent \in 0 .. MaxRequests /\ created \in 0 .. MaxOptions
    /\ engines \in 0 .. MaxEngines
    /\ \A r \in Request : req[r].state \in
          Unfinished \cup {"unsent", "calling", "called", "dropped"}
    /\ phase \in Phase /\ todo \subseteq Queue /\ visiting \in Queue \cup {0}
    /\ dying \in 0 .. engines /\ current \in Sent \cup {0}
    /\ map \in 1 .. MaxMaps /\ alive \in BOOLEAN

\* From SendRequest to the end of its callback a request owns exactly one entry
\* of requests_, so GetRequest in cb_proxy does not throw and DeleteRequest
\* removes that request and no other; the entry is gone when the callback is
\* over, and only a forgotten request leaves its entry behind.
EntriesMatch ==
    /\ \A r \in Sent : req[r].state # "called" =>
          req[r].handle \in DOMAIN requests /\ requests[req[r].handle] = r
    /\ \A h \in DOMAIN requests : req[requests[h]].handle = h
    /\ \A h \in DOMAIN requests : req[requests[h]].state # "called"

\* Somebody will deliver every request: its engine is in a pack, set aside, or
\* being destroyed.  No engine with requests is ever dropped from the tables,
\* although callbacks create queues and engines while the loop removes them.
EveryEngineServed ==
    \A r \in Sent : req[r].state \in Unfinished =>
                        req[r].engine \in Served \cup {dying}

\* A request whose engine was set aside never calls back.
ForgottenSilent ==
    \A r \in Sent : req[r].forgotten => req[r].state \notin {"calling", "called"}

\* When the next map starts, a request of an earlier one that can still call
\* back was sent by a callback that the map change itself ran.
OldRequestsInterrupted ==
    phase = "play" =>
        \A r \in Sent :
            (req[r].state \in Unfinished /\ ~req[r].forgotten /\ req[r].map < map)
                => req[r].late

\* A map change ends although peers never answer: every request of a terminating
\* engine is cancelled before the main thread waits for it in the engine's
\* destructor, and those of a forgettable one are not waited for.  The only
\* request that can hold up a map change is one sent by a callback of that
\* change, to a user queue whose engine was just destroyed.
MapChangeEnds ==
    phase = "drain" ~> \/ phase \in {"play", "crashed", "gone"}
                       \/ dying # 0 /\ \E r \in Active(dying) : req[r].late

-----------------------------------------------------------------------------
(* Claims that the code does not keep. *)

\* EasyHttpModule.h: the options_id of a request stays valid as long as the
\* request exists.  (on_complete deletes the options with the first of the
\* requests that share them.)
OptionsOutliveRequest ==
    \A h \in DOMAIN requests :
        LET r == req[requests[h]] IN
            r.options_id \in DOMAIN options /\ options[r.options_id].uid = r.options_uid

\* ServerDeactivate's comment: no callback fires into the plugins of a map that
\* is over.  (A request sent by a callback of the map change survives it.)
CallbackOnItsMap == current # 0 => req[current].map = map

\* README: exceptions and plugins cannot crash the server.  (The module's
\* destructor runs callbacks while g_EasyHttpModule is already null.)
NeverCrashes == phase # "crashed"
=============================================================================
