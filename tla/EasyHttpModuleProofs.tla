------------------------ MODULE EasyHttpModuleProofs ------------------------
(***************************************************************************)
(* The tables of EasyHttpModule and the loop of the map change, for every  *)
(* bound on requests, options, queues, engines and maps.                   *)
(*                                                                         *)
(* The loop over the queues runs callbacks, which send requests and create *)
(* queues while it removes them.  The invariant says which engine can      *)
(* still be where: no engine is in two places (EnginesApart), what is set  *)
(* aside is forgotten (SetAside), and while the loop runs every request of *)
(* the old map that can still call back belongs to a queue it has yet to   *)
(* visit, or to the engine it is at (LoopCovers).  Callbacks run only      *)
(* while a frame or a destructor runs (LoopShape), which is why the last   *)
(* step, RemoveQueue, cannot lose a forgettable engine.                    *)
(***************************************************************************)
EXTENDS EasyHttpModule, FiniteSetTheorems, TLAPS

State == Unfinished \cup {"unsent", "calling", "called", "dropped"}

RequestRecord ==
    [state : State, handle : Nat, options_id : Nat, options_uid : Nat,
     queue : Nat, engine : Nat, canceled : BOOLEAN, forgotten : BOOLEAN,
     map : Nat, late : BOOLEAN]

\* Every request sent has an engine; every other one is as at the start.
RequestsOK ==
    /\ req \in [Request -> RequestRecord]
    /\ \A r \in Request : r \in Sent <=> req[r].state # "unsent"
    /\ \A r \in Sent : req[r].engine \in 1 .. engines
    /\ current # 0 => req[current].state = "calling"

\* Every handle in use was used, and a handle takes a creation.
TablesOK ==
    /\ DOMAIN options \subseteq 1 .. used.options /\ used.options <= created
    /\ DOMAIN requests \subseteq 1 .. used.requests /\ used.requests <= sent
    /\ DOMAIN packs \subseteq 1 .. used.packs

InLoop == phase \in {"reset", "forget", "remove"}

\* Where the main thread can be: callbacks run in a frame or a destructor, and
\* destructors in the loop, never between ForgetQueue and RemoveQueue.
LoopShape ==
    /\ current # 0 => dying # 0 \/ phase \in {"frame", "drain", "crashed"}
    /\ dying # 0 => phase \in {"reset", "forget", "crashed"}
    /\ InLoop => todo \subseteq DOMAIN packs
    /\ phase \in {"forget", "remove"} => visiting \in DOMAIN packs \ todo
    /\ phase = "remove" => /\ visiting # Main
                           /\ packs[visiting]["ForgetRequests"] = 0
    /\ alive /\ (phase = "drain" \/ InLoop) => map < MaxMaps

\* An engine is in one pack, for one behaviour, or set aside, or being destroyed.
EnginesApart ==
    \A q \in DOMAIN packs, b \in PluginEndBehaviour : packs[q][b] # 0 =>
        /\ packs[q][b] \notin forgotten_engines
        /\ packs[q][b] # dying
        /\ \A p \in DOMAIN packs, c \in PluginEndBehaviour :
              packs[p][c] = packs[q][b] => p = q /\ c = b

\* What an engine set aside has still to deliver is forgotten.
SetAside ==
    \A r \in Sent : req[r].engine \in forgotten_engines /\ req[r].state \in Unfinished
                        => req[r].forgotten

\* A request that can still call back and was not sent by the map change.
Old(r) == req[r].state \in Unfinished /\ ~req[r].forgotten /\ ~req[r].late

\* The engines that the loop has still to deal with.
Ahead ==
    {packs[q][b] : q \in todo, b \in PluginEndBehaviour} \cup {dying}
        \cup (IF phase = "forget" THEN {packs[visiting]["ForgetRequests"]} ELSE {})

\* While the loop runs, such a request is ahead of it; outside it is of this map.
LoopCovers ==
    \A r \in Sent : Old(r) =>
        /\ InLoop => req[r].engine \in Ahead
        /\ phase \in {"play", "frame", "drain"} => req[r].map = map

\* The inductive invariant.
IInv ==
    /\ TypeOK
    /\ RequestsOK
    /\ TablesOK
    /\ EntriesMatch
    /\ LoopShape
    /\ EnginesApart
    /\ EveryEngineServed
    /\ ForgottenSilent
    /\ SetAside
    /\ LoopCovers

USE DEF table_vars, engine_vars, loop_vars

-----------------------------------------------------------------------------
(* Tables. *)

\* GetFreeHandle returns a handle that is not in use, the next one at most.
LEMMA FreeHandle ==
    ASSUME NEW t, NEW n \in Nat, DOMAIN t \subseteq 1 .. n, NEW h \in FreeHandles(t, n)
    PROVE  /\ h \notin DOMAIN t /\ h \in 1 .. n + 1
           /\ HighWater(n, h) \in Nat /\ n <= HighWater(n, h)
           /\ h <= HighWater(n, h) /\ HighWater(n, h) <= n + 1
           /\ HighWater(n, h) = n \/ DOMAIN t = 1 .. n
<1>1. CASE 1 .. n \subseteq DOMAIN t
  <2>1. h = n + 1 /\ DOMAIN t = 1 .. n
    BY <1>1 DEF FreeHandles
  <2>2. QED
    BY <2>1 DEF HighWater
<1>2. CASE ~(1 .. n \subseteq DOMAIN t)
  <2>1. h \in 1 .. n /\ h \notin DOMAIN t
    BY <1>2 DEF FreeHandles
  <2>2. HighWater(n, h) = n
    BY <2>1 DEF HighWater
  <2>3. QED
    BY <2>1, <2>2
<1>3. QED
  BY <1>1, <1>2

-----------------------------------------------------------------------------
(* Steps that change what is known of requests, and nothing else. *)

\* No request changes its engine, handle or map; none is unfinished again and
\* none is remembered again.
RequestsKept ==
    /\ req' \in [Request -> RequestRecord]
    /\ \A r \in Request :
          /\ req'[r].engine = req[r].engine /\ req'[r].handle = req[r].handle
          /\ req'[r].map = req[r].map /\ req'[r].late = req[r].late
          /\ req'[r].state = "unsent" <=> req[r].state = "unsent"
          /\ req'[r].state \in Unfinished => req[r].state \in Unfinished
          /\ req[r].forgotten => req'[r].forgotten

\* Requests that were sent are requests.
LEMMA SentRequests == TypeOK => Sent \subseteq Request
BY ModuleBounds DEF TypeOK, Sent, Request

\* What RequestsKept keeps, engines and loop unchanged.
LEMMA KeptParts ==
    ASSUME IInv, RequestsKept, UNCHANGED <<engine_vars, sent, loop_vars>>
    PROVE  EveryEngineServed' /\ SetAside' /\ LoopCovers' /\ EnginesApart'
<1>1. Sent' = Sent /\ Sent \subseteq Request
  BY SentRequests DEF IInv, Sent
<1>2. Served' = Served /\ Ahead' = Ahead /\ InLoop' = InLoop
  BY DEF Served, Ahead, InLoop
<1>3. EveryEngineServed'
  BY <1>1, <1>2 DEF IInv, EveryEngineServed, RequestsKept
<1>4. SetAside'
  BY <1>1 DEF IInv, SetAside, RequestsKept
<1>5. \A r \in Request : Old(r)' => Old(r)
  BY DEF RequestsKept, Old
<1>6. LoopCovers'
  BY <1>1, <1>2, <1>5 DEF IInv, LoopCovers, RequestsKept
<1>7. EnginesApart'
  BY DEF IInv, EnginesApart
<1>8. QED
  BY <1>3, <1>4, <1>6, <1>7

\* Such a step keeps the invariant when no callback returns in it and no
\* forgotten request is called back.
LEMMA RequestsOnlyStep ==
    ASSUME IInv, RequestsKept, UNCHANGED <<table_vars, engine_vars, sent, loop_vars>>,
           current' \in Sent \cup {0},
           current' # 0 => req'[current'].state = "calling",
           current' # 0 => dying # 0 \/ phase \in {"frame", "drain", "crashed"},
           \A r \in Request : req'[r].state = "called" <=> req[r].state = "called",
           \A r \in Request : req'[r].forgotten => req'[r].state \notin {"calling", "called"}
    PROVE  IInv'
<1>1. Sent' = Sent /\ Sent \subseteq Request
  BY SentRequests DEF IInv, Sent
<1>2. EveryEngineServed' /\ SetAside' /\ LoopCovers' /\ EnginesApart'
  BY KeptParts
<1>3. \A r \in Request : req'[r].state \in State
  BY DEF RequestsKept, RequestRecord
<1>4. TypeOK'
  BY <1>1, <1>3 DEF IInv, TypeOK, State, Sent
<1>5. RequestsOK'
  BY <1>1 DEF IInv, RequestsOK, RequestsKept
<1>6. TablesOK'
  BY DEF IInv, TablesOK
<1>7. EntriesMatch'
  <2>1. \A h \in DOMAIN requests : requests[h] \in Request
    BY <1>1 DEF IInv, TypeOK
  <2>2. QED
    BY <1>1, <2>1 DEF IInv, EntriesMatch, RequestsKept
<1>8. LoopShape'
  BY DEF IInv, LoopShape, InLoop
<1>9. ForgottenSilent'
  BY <1>1 DEF ForgottenSilent
<1>10. QED
  BY <1>2, <1>4, <1>5, <1>6, <1>7, <1>8, <1>9 DEF IInv

\* A request and its record.
LEMMA RecordOf ==
    ASSUME IInv, NEW r \in Request
    PROVE  /\ req[r] \in RequestRecord
           /\ r \in Sent <=> req[r].state # "unsent"
           /\ req[r].forgotten => req[r].state \notin {"calling", "called"}
<1>1. req[r] \in RequestRecord /\ (r \in Sent <=> req[r].state # "unsent")
  BY DEF IInv, RequestsOK
<1>2. r \in Sent => (req[r].forgotten => req[r].state \notin {"calling", "called"})
  BY DEF IInv, ForgottenSilent
<1>3. QED
  BY <1>1, <1>2

\* ezhttp_cancel_request sets a flag.
LEMMA CancelRequestStep ==
    ASSUME IInv, NEW h \in DOMAIN requests, CancelRequest(h)
    PROVE  IInv'
<1>1. requests[h] \in Request
  BY SentRequests DEF IInv, TypeOK
<1>2. req' = [req EXCEPT ![requests[h]].canceled = TRUE]
  BY DEF CancelRequest
<1>3. req \in [Request -> RequestRecord]
  BY DEF IInv, RequestsOK
<1>4. req' \in [Request -> RequestRecord]
  BY <1>1, <1>2, <1>3 DEF RequestRecord
<1>5. \A r \in Request :
         /\ req'[r].engine = req[r].engine /\ req'[r].handle = req[r].handle
         /\ req'[r].map = req[r].map /\ req'[r].late = req[r].late
         /\ req'[r].state = req[r].state /\ req'[r].forgotten = req[r].forgotten
  BY <1>1, <1>2, <1>3 DEF RequestRecord
<1>6. RequestsKept
  BY <1>4, <1>5 DEF RequestsKept
<1>7. current' = current /\ current \in Request \cup {0}
  BY SentRequests DEF CancelRequest, IInv, TypeOK
<1>8. QED
  BY <1>5, <1>6, <1>7, RequestsOnlyStep, RecordOf
  DEF CancelRequest, IInv, TypeOK, RequestsOK, LoopShape

\* A request moves from one state to the next and nothing else of it changes.
LEMMA StateStep ==
    ASSUME IInv, NEW r \in Request, NEW s \in State \ {"unsent"},
           req' = [req EXCEPT ![r].state = s],
           req[r].state # "unsent",
           s \in Unfinished => req[r].state \in Unfinished
    PROVE  /\ RequestsKept
           /\ req'[r].state = s /\ req'[r].forgotten = req[r].forgotten
           /\ \A q \in Request \ {r} : req'[q] = req[q]
<1>1. req \in [Request -> RequestRecord]
  BY DEF IInv, RequestsOK
<1>2. /\ req'[r].state = s /\ req'[r].forgotten = req[r].forgotten
      /\ req'[r].engine = req[r].engine /\ req'[r].handle = req[r].handle
      /\ req'[r].map = req[r].map /\ req'[r].late = req[r].late
      /\ req'[r] \in RequestRecord
  BY <1>1 DEF RequestRecord
<1>3. \A q \in Request \ {r} : req'[q] = req[q]
  BY <1>1
<1>4. req' \in [Request -> RequestRecord]
  BY <1>1, <1>2, <1>3
<1>5. QED
  BY <1>2, <1>3, <1>4 DEF RequestsKept

\* A worker takes a request, or posts its response.
LEMMA WorkerKeeps ==
    ASSUME IInv, NEW r \in Request, WorkerStep(r)
    PROVE  IInv'
<1>1. PICK s \in {"running", "posted"} :
          /\ req' = [req EXCEPT ![r].state = s]
          /\ req[r].state \in {"queued", "running"}
          /\ UNCHANGED <<table_vars, engine_vars, sent, current, loop_vars>>
  BY DEF WorkerStep, Start, Finish, thread_unchanged
<1>2. s \in State \ {"unsent"} /\ s \in Unfinished /\ req[r].state \in Unfinished
  BY <1>1 DEF State, Unfinished
<1>3. /\ RequestsKept
      /\ req'[r].state = s
      /\ \A q \in Request \ {r} : req'[q] = req[q]
  BY <1>1, <1>2, StateStep
<1>4. current # r /\ current \in Request \cup {0}
  <2>1. current # 0 => req[current].state = "calling"
    BY DEF IInv, RequestsOK
  <2>2. r # 0
    BY DEF Request
  <2>3. QED
    BY <1>1, <2>1, <2>2, SentRequests DEF IInv, TypeOK
<1>5. current' # 0 => req'[current'].state = "calling"
  BY <1>1, <1>3, <1>4 DEF IInv, RequestsOK
<1>6. \A q \in Request : req'[q].state = "called" <=> req[q].state = "called"
  BY <1>1, <1>3
<1>7. \A q \in Request : req'[q].forgotten => req'[q].state \notin {"calling", "called"}
  BY <1>1, <1>3, RecordOf
<1>8. QED
  BY <1>1, <1>3, <1>5, <1>6, <1>7, RequestsOnlyStep DEF IInv, TypeOK, LoopShape

\* A response is popped: its request is called back, or dropped if forgotten.
LEMMA DeliverStep ==
    ASSUME IInv, NEW r \in Request, Call(r) \/ Drop(r),
           Drop(r) \/ dying # 0 \/ phase \in {"frame", "drain"}
    PROVE  IInv'
<1>1. PICK s \in {"calling", "dropped"} :
          /\ req' = [req EXCEPT ![r].state = s]
          /\ req[r].state = "posted" /\ current = 0
          /\ current' = IF s = "calling" THEN r ELSE 0
          /\ s = "calling" => ~req[r].forgotten
          /\ s = "calling" => dying # 0 \/ phase \in {"frame", "drain"}
          /\ UNCHANGED <<table_vars, engine_vars, sent, loop_vars>>
  <2>1. CASE Call(r) /\ ~Drop(r)
    BY <2>1 DEF Call
  <2>2. CASE Drop(r)
    BY <2>2 DEF Drop
  <2>3. QED
    BY <2>1, <2>2
<1>2. s \in State \ {"unsent"} /\ s \notin Unfinished
  BY <1>1 DEF State, Unfinished
<1>3. /\ RequestsKept
      /\ req'[r].state = s /\ req'[r].forgotten = req[r].forgotten
      /\ \A q \in Request \ {r} : req'[q] = req[q]
  BY <1>1, <1>2, StateStep
<1>4. r \in Sent
  BY <1>1, RecordOf
<1>5. \A q \in Request : req'[q].state = "called" <=> req[q].state = "called"
  BY <1>1, <1>3
<1>6. \A q \in Request : req'[q].forgotten => req'[q].state \notin {"calling", "called"}
  BY <1>1, <1>3, RecordOf
<1>7. QED
  BY <1>1, <1>3, <1>4, <1>5, <1>6, RequestsOnlyStep

\* The callback is over: the request's own entry goes, and an options object.
LEMMA CallbackReturnsStep ==
    ASSUME IInv, CallbackReturns
    PROVE  IInv'
<1> DEFINE r == current
<1>1. /\ r # 0 /\ alive
      /\ options' = Without(options, req[r].options_id)
      /\ requests' = Without(requests, req[r].handle)
      /\ req' = [req EXCEPT ![r].state = "called"]
      /\ current' = 0
      /\ UNCHANGED <<created, used, engine_vars, sent, loop_vars>>
  BY DEF CallbackReturns
<1>2. r \in Sent /\ r \in Request /\ req[r].state = "calling"
  BY <1>1, SentRequests DEF IInv, TypeOK, RequestsOK
<1> HIDE DEF r
<1>3. Sent' = Sent /\ Sent \subseteq Request
  BY <1>1, SentRequests DEF IInv, Sent
<1>4. /\ RequestsKept
      /\ req'[r].state = "called" /\ req'[r].forgotten = req[r].forgotten
      /\ \A q \in Request \ {r} : req'[q] = req[q]
  <2>1. "called" \in State \ {"unsent"} /\ "called" \notin Unfinished
    BY DEF State, Unfinished
  <2>2. QED
    BY <1>1, <1>2, <2>1, StateStep
<1>5. EveryEngineServed' /\ SetAside' /\ LoopCovers' /\ EnginesApart'
  BY <1>1, <1>4, KeptParts
<1>6. /\ DOMAIN options' = DOMAIN options \ {req[r].options_id}
      /\ \A h \in DOMAIN options' : options'[h] = options[h]
  BY <1>1 DEF Without
<1>7. /\ DOMAIN requests' = DOMAIN requests \ {req[r].handle}
      /\ requests' = [h \in DOMAIN requests' |-> requests'[h]]
      /\ \A h \in DOMAIN requests' : requests'[h] = requests[h]
  BY <1>1 DEF Without
<1>8. requests' \in [DOMAIN requests' -> Sent]
  <2>1. \A h \in DOMAIN requests' : requests'[h] \in Sent
    BY <1>7 DEF IInv, TypeOK
  <2>2. QED
    BY <1>7, <2>1
<1>9. TypeOK'
  <2>1. \A q \in Request : req'[q].state \in State
    BY <1>4 DEF RequestsKept, RequestRecord
  <2>2. QED
    BY <1>1, <1>3, <1>6, <1>8, <2>1 DEF IInv, TypeOK, State, Sent
<1>10. RequestsOK'
  BY <1>1, <1>3, <1>4 DEF IInv, RequestsOK, RequestsKept
<1>11. TablesOK'
  BY <1>1, <1>6, <1>7 DEF IInv, TablesOK
<1>12. EntriesMatch'
  <2>1. \A h \in DOMAIN requests : requests[h] \in Request
    BY <1>3 DEF IInv, TypeOK
  <2>2. requests[req[r].handle] = r
    BY <1>2 DEF IInv, EntriesMatch
  <2>3. \A h \in DOMAIN requests' : requests[h] # r
    BY <1>7 DEF IInv, EntriesMatch
  <2>4. ASSUME NEW q \in Sent, req'[q].state # "called"
        PROVE  req'[q].handle \in DOMAIN requests' /\ requests'[req'[q].handle] = q
    <3>1. q # r /\ req'[q] = req[q]
      BY <1>3, <1>4, <2>4
    <3>2. req[q].handle \in DOMAIN requests /\ requests[req[q].handle] = q
      BY <2>4, <3>1 DEF IInv, EntriesMatch
    <3>3. QED
      BY <1>7, <2>2, <3>1, <3>2
  <2>5. \A h \in DOMAIN requests' :
           req'[requests'[h]].handle = h /\ req'[requests'[h]].state # "called"
    BY <1>4, <1>7, <2>1, <2>3 DEF IInv, EntriesMatch
  <2>6. QED
    BY <1>3, <2>4, <2>5 DEF EntriesMatch
<1>13. LoopShape'
  BY <1>1 DEF IInv, LoopShape, InLoop
<1>14. ForgottenSilent'
  BY <1>2, <1>3, <1>4, RecordOf DEF IInv, ForgottenSilent
<1>15. QED
  BY <1>5, <1>9, <1>10, <1>11, <1>12, <1>13, <1>14 DEF IInv

-----------------------------------------------------------------------------
(* Natives that create. *)

\* What does not speak of options.
LEMMA OptionsFree ==
    ASSUME IInv, UNCHANGED <<requests, engine_vars, req, sent, current, loop_vars>>
    PROVE  /\ RequestsOK' /\ EntriesMatch' /\ LoopShape' /\ EnginesApart'
           /\ EveryEngineServed' /\ ForgottenSilent' /\ SetAside' /\ LoopCovers'
<1>1. /\ Sent' = Sent /\ Served' = Served /\ Ahead' = Ahead /\ InLoop' = InLoop
      /\ \A r : Old(r)' = Old(r)
  BY DEF Sent, Served, Ahead, InLoop, Old
<1>2. RequestsOK' /\ EntriesMatch' /\ ForgottenSilent' /\ SetAside'
  BY <1>1 DEF IInv, RequestsOK, EntriesMatch, ForgottenSilent, SetAside
<1>3. LoopShape' /\ EnginesApart'
  BY <1>1 DEF IInv, LoopShape, EnginesApart
<1>4. EveryEngineServed' /\ LoopCovers'
  BY <1>1 DEF IInv, EveryEngineServed, LoopCovers
<1>5. QED
  BY <1>2, <1>3, <1>4

\* The record of the handles used so far.
LEMMA UsedHandles ==
    ASSUME IInv
    PROVE  /\ used.options \in Nat /\ used.requests \in Nat /\ used.packs \in Nat
           /\ created \in Nat /\ sent \in Nat /\ engines \in Nat
           /\ used.options <= created /\ used.requests <= sent
           /\ DOMAIN options \subseteq 1 .. used.options
           /\ DOMAIN requests \subseteq 1 .. used.requests
           /\ DOMAIN packs \subseteq 1 .. used.packs
BY ModuleBounds DEF IInv, TypeOK, TablesOK, Queue

OptionsRecord(n) == [uid : 1 .. n, queue_id : Queue, behaviour : PluginEndBehaviour]

\* The options table after ezhttp_create_options, or the default options of a
\* request.
LEMMA NewOptionsTable ==
    ASSUME IInv, created < MaxOptions,
           NEW h \in FreeHandles(options, used.options),
           NEW q \in Queue, NEW b \in PluginEndBehaviour,
           options' = With(options, h, NewOptions(q, b)), created' = created + 1
    PROVE  /\ DOMAIN options' \subseteq 1 .. HighWater(used.options, h)
           /\ HighWater(used.options, h) \in 0 .. MaxOptions
           /\ HighWater(used.options, h) <= created'
           /\ DOMAIN options' \subseteq 1 .. MaxOptions
           /\ \A k \in DOMAIN options' : options'[k] \in OptionsRecord(created')
<1>1. /\ h \notin DOMAIN options /\ h \in 1 .. used.options + 1
      /\ HighWater(used.options, h) \in Nat /\ used.options <= HighWater(used.options, h)
      /\ h <= HighWater(used.options, h) /\ HighWater(used.options, h) <= used.options + 1
  BY UsedHandles, FreeHandle
<1>2. /\ DOMAIN options' = DOMAIN options \cup {h}
      /\ options'[h] = NewOptions(q, b)
      /\ \A k \in DOMAIN options : k # h => options'[k] = options[k]
  BY DEF With
<1>3. HighWater(used.options, h) <= created' /\ created' <= MaxOptions /\ MaxOptions \in Nat
  BY <1>1, UsedHandles, ModuleBounds
<1>4. DOMAIN options' \subseteq 1 .. HighWater(used.options, h)
  BY <1>1, <1>2, UsedHandles
<1>5. NewOptions(q, b) \in OptionsRecord(created')
  BY UsedHandles DEF NewOptions, OptionsRecord
<1>6. \A k \in DOMAIN options : options[k] \in OptionsRecord(created')
  <2>1. 1 .. created \subseteq 1 .. created'
    BY UsedHandles
  <2>2. QED
    BY <2>1 DEF IInv, TypeOK, OptionsRecord
<1>7. QED
  BY <1>1, <1>2, <1>3, <1>4, <1>5, <1>6

\* ezhttp_create_options and its setters.
LEMMA CreateOptionsStep ==
    ASSUME IInv, NEW q \in Queue, NEW b \in PluginEndBehaviour, CreateOptions(q, b)
    PROVE  IInv'
<1>1. PICK h \in FreeHandles(options, used.options) :
          /\ options' = With(options, h, NewOptions(q, b))
          /\ used' = [used EXCEPT !.options = HighWater(@, h)]
  BY DEF CreateOptions
<1>2. /\ created < MaxOptions /\ created' = created + 1
      /\ UNCHANGED <<requests, engine_vars, req, sent, current, loop_vars>>
  BY DEF CreateOptions
<1>3. /\ DOMAIN options' \subseteq 1 .. HighWater(used.options, h)
      /\ HighWater(used.options, h) \in 0 .. MaxOptions
      /\ HighWater(used.options, h) <= created'
      /\ DOMAIN options' \subseteq 1 .. MaxOptions
      /\ \A k \in DOMAIN options' : options'[k] \in OptionsRecord(created')
  BY <1>1, <1>2, NewOptionsTable
<1>4. /\ used' \in [options : 0 .. MaxOptions, requests : 0 .. MaxRequests, packs : Queue]
      /\ used'.options = HighWater(used.options, h)
      /\ used'.requests = used.requests /\ used'.packs = used.packs
  BY <1>1, <1>3 DEF IInv, TypeOK
<1>5. TypeOK'
  <2>1. created' \in 0 .. MaxOptions
    BY <1>2, UsedHandles, ModuleBounds
  <2>2. QED
    BY <1>2, <1>3, <1>4, <2>1 DEF IInv, TypeOK, OptionsRecord, Sent
<1>6. TablesOK'
  BY <1>2, <1>3, <1>4 DEF IInv, TablesOK
<1>7. QED
  BY <1>2, <1>5, <1>6, OptionsFree DEF IInv

\* ezhttp_destroy_options.
LEMMA DestroyOptionsStep ==
    ASSUME IInv, NEW h \in DOMAIN options, DestroyOptions(h)
    PROVE  IInv'
<1>1. /\ options' = Without(options, h)
      /\ UNCHANGED <<requests, created, used, engine_vars, req, sent, current, loop_vars>>
  BY DEF DestroyOptions
<1>2. /\ DOMAIN options' = DOMAIN options \ {h}
      /\ \A k \in DOMAIN options' : options'[k] = options[k]
  BY <1>1 DEF Without
<1>3. TypeOK' /\ TablesOK'
  BY <1>1, <1>2 DEF IInv, TypeOK, TablesOK, Sent
<1>4. QED
  BY <1>1, <1>3, OptionsFree DEF IInv

\* ezhttp_create_queue: a new pack without engines, perhaps ahead of the loop.
LEMMA CreateQueueStep ==
    ASSUME IInv, CreateQueue
    PROVE  IInv'
<1> DEFINE empty == [b \in PluginEndBehaviour |-> 0]
<1>1. PICK q \in FreeHandles(packs, used.packs) :
          /\ used' = [used EXCEPT !.packs = HighWater(@, q)]
          /\ packs' = With(packs, q, empty)
          /\ todo \subseteq todo' /\ todo' \subseteq todo \cup {q}
          /\ ~InLoop => todo' = todo
  BY DEF CreateQueue, InLoop
<1>2. /\ Cardinality(DOMAIN packs) < MaxQueues
      /\ UNCHANGED <<options, requests, created, engine_of_main, forgotten_engines,
                     engines, req, sent, current, phase, visiting, dying, map, alive>>
  BY DEF CreateQueue
<1>3. /\ q \notin DOMAIN packs /\ q \in 1 .. used.packs + 1
      /\ HighWater(used.packs, q) \in Nat /\ used.packs <= HighWater(used.packs, q)
      /\ q <= HighWater(used.packs, q) /\ HighWater(used.packs, q) <= used.packs + 1
      /\ HighWater(used.packs, q) = used.packs \/ DOMAIN packs = 1 .. used.packs
  BY UsedHandles, FreeHandle
<1>4. /\ used' \in [options : 0 .. MaxOptions, requests : 0 .. MaxRequests, packs : Queue]
      /\ used'.packs = HighWater(used.packs, q)
      /\ used'.options = used.options /\ used'.requests = used.requests
  <2>1. used.packs \in 1 .. MaxQueues /\ MaxQueues \in Nat
    BY ModuleBounds DEF IInv, TypeOK, Queue
  <2>2. DOMAIN packs = 1 .. used.packs => Cardinality(DOMAIN packs) = used.packs
    <3>1. Cardinality(1 .. used.packs) = used.packs
      BY <2>1, FS_Interval
    <3>2. QED
      BY <3>1
  <2>3. HighWater(used.packs, q) \in Queue
    BY <1>2, <1>3, <2>1, <2>2 DEF Queue
  <2>4. QED
    BY <1>1, <2>3 DEF IInv, TypeOK
<1>5. q \in Queue
  BY <1>3, <1>4, UsedHandles, ModuleBounds DEF Queue
<1>6. /\ DOMAIN packs' = DOMAIN packs \cup {q}
      /\ packs' = [p \in DOMAIN packs' |-> packs'[p]]
      /\ \A p \in DOMAIN packs : packs'[p] = packs[p]
      /\ \A b \in PluginEndBehaviour : packs'[q][b] = 0
  <2>1. packs' = [p \in DOMAIN packs \cup {q} |-> IF p = q THEN empty ELSE packs[p]]
    BY <1>1 DEF With
  <2>2. QED
    BY <1>3, <2>1
<1>7. Sent' = Sent /\ InLoop' = InLoop
  BY <1>2 DEF Sent, InLoop
<1>8. TypeOK'
  <2>1. packs' \in [DOMAIN packs' -> [PluginEndBehaviour -> 0 .. engines]]
    <3>1. \A p \in DOMAIN packs : packs[p] \in [PluginEndBehaviour -> 0 .. engines]
      BY DEF IInv, TypeOK
    <3>2. packs'[q] \in [PluginEndBehaviour -> 0 .. engines]
      <4>1. 0 \in 0 .. engines
        BY UsedHandles
      <4>2. packs'[q] = empty
        BY <1>1 DEF With
      <4>3. QED
        BY <4>1, <4>2
    <3>3. \A p \in DOMAIN packs' : packs'[p] \in [PluginEndBehaviour -> 0 .. engines]
      BY <1>6, <3>1, <3>2
    <3>4. QED
      BY <1>6, <3>3
  <2>2. Main \in DOMAIN packs' /\ DOMAIN packs' \subseteq Queue /\ todo' \subseteq Queue
    BY <1>1, <1>5, <1>6 DEF IInv, TypeOK
  <2>3. QED
    BY <1>2, <1>4, <1>7, <2>1, <2>2 DEF IInv, TypeOK
<1>9. RequestsOK' /\ EntriesMatch' /\ ForgottenSilent' /\ SetAside'
  BY <1>2, <1>7 DEF IInv, RequestsOK, EntriesMatch, ForgottenSilent, SetAside
<1>10. TablesOK'
  <2>1. DOMAIN packs' \subseteq 1 .. used'.packs
    BY <1>3, <1>4, <1>6, UsedHandles
  <2>2. QED
    BY <1>2, <1>4, <2>1 DEF IInv, TablesOK
<1>11. LoopShape'
  <2>1. InLoop => todo' \subseteq DOMAIN packs'
    BY <1>1, <1>6 DEF IInv, LoopShape
  <2>2. phase \in {"forget", "remove"} =>
           visiting \in DOMAIN packs' \ todo' /\ packs'[visiting] = packs[visiting]
    BY <1>1, <1>3, <1>6 DEF IInv, LoopShape
  <2>3. QED
    BY <1>2, <1>7, <2>1, <2>2 DEF IInv, LoopShape
<1>12. EnginesApart'
  BY <1>2, <1>3, <1>6 DEF IInv, EnginesApart
<1>13. EveryEngineServed'
  <2>1. Served \subseteq Served'
    BY <1>2, <1>6 DEF Served
  <2>2. QED
    BY <1>2, <1>7, <2>1 DEF IInv, EveryEngineServed
<1>14. LoopCovers'
  <2>1. InLoop => Ahead \subseteq Ahead'
    <3> SUFFICES ASSUME InLoop PROVE Ahead \subseteq Ahead'
      OBVIOUS
    <3>1. \A p \in todo : p \in todo' /\ packs'[p] = packs[p]
      BY <1>1, <1>6 DEF IInv, LoopShape
    <3>2. phase = "forget" => packs'[visiting] = packs[visiting]
      BY <1>6 DEF IInv, LoopShape
    <3>3. QED
      BY <1>2, <3>1, <3>2 DEF Ahead
  <2>2. \A r \in Sent : Old(r)' = Old(r)
    BY <1>2 DEF Old
  <2>3. QED
    BY <1>2, <1>7, <2>1, <2>2 DEF IInv, LoopCovers
<1>15. QED
  BY <1>8, <1>9, <1>10, <1>11, <1>12, <1>13, <1>14 DEF IInv

-----------------------------------------------------------------------------
(* Sending a request. *)

\* While plugin code runs the loop is not between ForgetQueue and RemoveQueue.
LEMMA PluginPhase ==
    ASSUME IInv, PluginRuns
    PROVE  phase # "remove"
BY DEF IInv, LoopShape, PluginRuns

\* The packs after GetEasyHttp: an engine that was there stays, and e, which is
\* not set aside and not being destroyed, serves queue q for behaviour b.
EngineReady(q, b, e) ==
    /\ engines' \in 0 .. MaxEngines /\ engines <= engines' /\ e \in 1 .. engines'
    /\ DOMAIN packs' = DOMAIN packs
    /\ packs' \in [DOMAIN packs -> [PluginEndBehaviour -> 0 .. engines']]
    /\ packs'[q][b] = e
    /\ \A p \in DOMAIN packs, c \in PluginEndBehaviour :
          /\ packs[p][c] # 0 => packs'[p][c] = packs[p][c]
          /\ ~(p = q /\ c = b) => packs'[p][c] = packs[p][c]
    /\ e \notin forgotten_engines /\ e # dying
    /\ \A p \in DOMAIN packs, c \in PluginEndBehaviour :
          packs[p][c] = e => p = q /\ c = b
    /\ forgotten_engines' = forgotten_engines
    /\ engine_of_main' \subseteq 1 .. engines'

\* GetEasyHttp finds or creates the engine.
LEMMA GetEasyHttpReady ==
    ASSUME IInv, NEW q \in DOMAIN packs, NEW b \in PluginEndBehaviour, NEW e,
           GetEasyHttp(q, b, e)
    PROVE  EngineReady(q, b, e)
<1>1. /\ packs \in [DOMAIN packs -> [PluginEndBehaviour -> 0 .. engines]]
      /\ engines \in 0 .. MaxEngines /\ engines \in Nat /\ MaxEngines \in Nat
      /\ engine_of_main \subseteq 1 .. engines /\ forgotten_engines \subseteq 1 .. engines
      /\ dying \in 0 .. engines
  BY ModuleBounds DEF IInv, TypeOK
<1>2. CASE packs[q][b] # 0
  <2>1. e = packs[q][b] /\ UNCHANGED <<packs, engine_of_main, forgotten_engines, engines>>
    BY <1>2 DEF GetEasyHttp
  <2>2. e \in 1 .. engines
    BY <1>1, <1>2, <2>1
  <2>3. /\ e \notin forgotten_engines /\ e # dying
        /\ \A p \in DOMAIN packs, c \in PluginEndBehaviour :
              packs[p][c] = e => p = q /\ c = b
    BY <1>2, <2>1 DEF IInv, EnginesApart
  <2>4. QED
    BY <1>1, <2>1, <2>2, <2>3 DEF EngineReady
<1>3. CASE packs[q][b] = 0
  <2>1. /\ engines < MaxEngines /\ e = engines + 1 /\ engines' = engines + 1
        /\ packs' = [packs EXCEPT ![q][b] = e]
        /\ engine_of_main' \subseteq engine_of_main \cup {e}
        /\ forgotten_engines' = forgotten_engines
    BY <1>3 DEF GetEasyHttp
  <2>2. /\ engines' \in 0 .. MaxEngines /\ engines <= engines' /\ e \in 1 .. engines'
        /\ 0 .. engines \subseteq 0 .. engines' /\ e \notin 0 .. engines
        /\ 1 .. engines \subseteq 1 .. engines' /\ e \notin 1 .. engines
        /\ e \in 0 .. engines'
    BY <1>1, <2>1
  <2>3. \A p \in DOMAIN packs : packs[p] \in [PluginEndBehaviour -> 0 .. engines]
    BY <1>1
  <2>4. /\ DOMAIN packs' = DOMAIN packs
        /\ \A p \in DOMAIN packs : p # q => packs'[p] = packs[p]
        /\ packs'[q] = [packs[q] EXCEPT ![b] = e]
    BY <1>1, <2>1
  <2>5. packs'[q] \in [PluginEndBehaviour -> 0 .. engines'] /\ packs'[q][b] = e
        /\ \A c \in PluginEndBehaviour : c # b => packs'[q][c] = packs[q][c]
    BY <2>2, <2>3, <2>4
  <2>6. packs' \in [DOMAIN packs -> [PluginEndBehaviour -> 0 .. engines']]
    <3>1. ASSUME NEW p \in DOMAIN packs
          PROVE  packs'[p] \in [PluginEndBehaviour -> 0 .. engines']
      <4>1. CASE p = q
        BY <2>5, <4>1
      <4>2. CASE p # q
        <5>1. packs'[p] = packs[p] /\ packs[p] \in [PluginEndBehaviour -> 0 .. engines]
          BY <2>3, <2>4, <4>2
        <5>2. QED
          BY <2>2, <5>1
      <4>3. QED
        BY <4>1, <4>2
    <3>2. packs' = [p \in DOMAIN packs |-> packs'[p]]
      BY <1>1, <2>1
    <3>3. QED
      BY <3>1, <3>2
  <2>7. \A p \in DOMAIN packs, c \in PluginEndBehaviour : packs[p][c] # e
    BY <2>2, <2>3
  <2>8. \A p \in DOMAIN packs, c \in PluginEndBehaviour :
          /\ packs[p][c] # 0 => packs'[p][c] = packs[p][c]
          /\ ~(p = q /\ c = b) => packs'[p][c] = packs[p][c]
    BY <1>3, <2>4, <2>5
  <2>9. e \notin forgotten_engines /\ e # dying /\ engine_of_main' \subseteq 1 .. engines'
    BY <1>1, <2>1, <2>2
  <2>10. QED
    BY <2>1, <2>2, <2>4, <2>5, <2>6, <2>7, <2>8, <2>9 DEF EngineReady
<1>4. QED
  BY <1>2, <1>3

\* The new request's record.
NewRequest(rh, id, uid, q, e) ==
    [NoRequest EXCEPT !.state = "queued", !.handle = rh,
                      !.options_id = id, !.options_uid = uid,
                      !.queue = q, !.engine = e, !.map = map,
                      !.late = phase \notin {"play", "frame", "drain"}]

\* It is a record like the others.
LEMMA NewRecord ==
    ASSUME IInv, NEW rh \in Nat, NEW id \in Nat, NEW uid \in Nat, NEW q \in Nat,
           NEW e \in Nat
    PROVE  NewRequest(rh, id, uid, q, e) \in RequestRecord
<1>1. map \in Nat
  BY ModuleBounds DEF IInv, TypeOK
<1>2. "queued" \in State /\ (phase \notin {"play", "frame", "drain"}) \in BOOLEAN
  BY DEF State, Unfinished
<1>3. QED
  BY <1>1, <1>2 DEF RequestRecord, NoRequest, NewRequest

\* What SendRequest does, with the choices named: rh is the new request's handle,
\* id the handle of its options, q the queue that is used.
SendFacts(e, rh, id, uid, q, b) ==
    /\ rh \in FreeHandles(requests, used.requests)
    /\ id \in 1 .. MaxOptions /\ uid \in Nat
    /\ q \in DOMAIN packs /\ b \in PluginEndBehaviour
    /\ GetEasyHttp(q, b, e)
    /\ DOMAIN options' \subseteq 1 .. MaxOptions
    /\ DOMAIN options' \subseteq 1 .. used'.options
    /\ used'.options \in 0 .. MaxOptions /\ used'.options <= created'
    /\ \A k \in DOMAIN options' : options'[k] \in OptionsRecord(created')
    /\ created' \in 0 .. MaxOptions
    /\ requests' = With(requests, rh, sent + 1)
    /\ used' = [used EXCEPT !.options = HighWater(@, id), !.requests = HighWater(@, rh)]
    /\ req' = [req EXCEPT ![sent + 1] = NewRequest(rh, id, uid, q, e)]

\* What SendRequest does with the handles id and rh and the options opt.
SendsWith(e, id, rh, opt) ==
    LET q == IF opt.queue_id \in DOMAIN packs THEN opt.queue_id ELSE Main IN
    /\ GetEasyHttp(q, opt.behaviour, e)
    /\ options' = With(options, id, opt)
    /\ requests' = With(requests, rh, sent + 1)
    /\ used' = [used EXCEPT !.options = HighWater(@, id), !.requests = HighWater(@, rh)]
    /\ req' = [req EXCEPT ![sent + 1] =
          [NoRequest EXCEPT !.state = "queued", !.handle = rh,
                            !.options_id = id, !.options_uid = opt.uid,
                            !.queue = q, !.engine = e, !.map = map,
                            !.late = phase \notin {"play", "frame", "drain"}]]

\* A request with options of its own, or with new default options.
LEMMA SendRequestFacts ==
    ASSUME IInv, NEW h \in DOMAIN options \cup {0}, NEW e \in Engine, SendRequest(h, e)
    PROVE  \E rh, id, uid, q, b : SendFacts(e, rh, id, uid, q, b)
<1>0. /\ DOMAIN options \subseteq 1 .. MaxOptions
      /\ \A k \in DOMAIN options : options[k] \in OptionsRecord(created)
      /\ Main \in DOMAIN packs /\ Main \in Queue
      /\ used \in [options : 0 .. MaxOptions, requests : 0 .. MaxRequests, packs : Queue]
      /\ created \in 0 .. MaxOptions /\ MaxOptions \in Nat
  BY ModuleBounds DEF IInv, TypeOK, OptionsRecord
<1>s. PICK id \in IF h = 0 THEN FreeHandles(options, used.options) ELSE {h},
           rh \in FreeHandles(requests, used.requests) :
              SendsWith(e, id, rh, IF h = 0 THEN NewOptions(Main, "CancelRequests")
                                            ELSE options[h])
  BY DEF SendRequest, SendsWith
<1>1. CASE h = 0
  <2>0. /\ id \in FreeHandles(options, used.options)
        /\ SendsWith(e, id, rh, NewOptions(Main, "CancelRequests"))
    BY <1>s, <1>1
  <2>1. LET opt == NewOptions(Main, "CancelRequests")
            q   == IF opt.queue_id \in DOMAIN packs THEN opt.queue_id ELSE Main
        IN /\ GetEasyHttp(q, opt.behaviour, e)
           /\ options' = With(options, id, opt)
           /\ requests' = With(requests, rh, sent + 1)
           /\ used' = [used EXCEPT !.options = HighWater(@, id),
                                   !.requests = HighWater(@, rh)]
           /\ req' = [req EXCEPT ![sent + 1] =
                 [NoRequest EXCEPT !.state = "queued", !.handle = rh,
                                   !.options_id = id, !.options_uid = opt.uid,
                                   !.queue = q, !.engine = e, !.map = map,
                                   !.late = phase \notin {"play", "frame", "drain"}]]
    BY <2>0 DEF SendsWith
  <2>2. created < MaxOptions /\ created' = created + 1
    BY <1>1 DEF SendRequest
  <2>3. /\ NewOptions(Main, "CancelRequests").uid = created + 1
        /\ NewOptions(Main, "CancelRequests").queue_id = Main
        /\ NewOptions(Main, "CancelRequests").behaviour = "CancelRequests"
    BY DEF NewOptions
  <2>4. "CancelRequests" \in PluginEndBehaviour
    BY DEF PluginEndBehaviour
  <2>5. /\ DOMAIN options' \subseteq 1 .. HighWater(used.options, id)
        /\ HighWater(used.options, id) \in 0 .. MaxOptions
        /\ HighWater(used.options, id) <= created'
        /\ DOMAIN options' \subseteq 1 .. MaxOptions
        /\ \A k \in DOMAIN options' : options'[k] \in OptionsRecord(created')
    BY <1>0, <2>0, <2>1, <2>2, <2>4, NewOptionsTable
  <2>6. used'.options = HighWater(used.options, id)
    BY <1>0, <2>1
  <2>7. id \in 1 .. MaxOptions
    <3>1. id \in 1 .. used.options + 1 /\ id <= HighWater(used.options, id)
      BY <2>0, UsedHandles, FreeHandle
    <3>2. used.options \in Nat
      BY UsedHandles
    <3>3. id \in Nat /\ 1 <= id
      BY <3>1, <3>2
    <3>4. QED
      BY <1>0, <2>5, <3>1, <3>3
  <2>8. created' \in 0 .. MaxOptions /\ created + 1 \in Nat
    BY <1>0, <2>2
  <2>9. SendFacts(e, rh, id, created + 1, Main, "CancelRequests")
    BY <1>0, <2>1, <2>3, <2>4, <2>5, <2>6, <2>7, <2>8 DEF SendFacts, NewRequest
  <2>10. QED
    BY <2>9
<1>2. CASE h \in DOMAIN options /\ h # 0
  <2> DEFINE opt == options[h]
             q == IF opt.queue_id \in DOMAIN packs THEN opt.queue_id ELSE Main
  <2>0. id = h /\ SendsWith(e, h, rh, options[h])
    BY <1>s, <1>2
  <2>1. /\ GetEasyHttp(q, opt.behaviour, e)
        /\ options' = With(options, h, opt)
        /\ requests' = With(requests, rh, sent + 1)
        /\ used' = [used EXCEPT !.options = HighWater(@, h), !.requests = HighWater(@, rh)]
        /\ req' = [req EXCEPT ![sent + 1] =
              [NoRequest EXCEPT !.state = "queued", !.handle = rh,
                                !.options_id = h, !.options_uid = opt.uid,
                                !.queue = q, !.engine = e, !.map = map,
                                !.late = phase \notin {"play", "frame", "drain"}]]
    BY <2>0 DEF SendsWith
  <2>2. created' = created
    BY <1>2 DEF SendRequest
  <2>3. DOMAIN options' = DOMAIN options /\ \A k \in DOMAIN options : options'[k] = options[k]
    BY <1>2, <2>1 DEF With
  <2>4. /\ opt.behaviour \in PluginEndBehaviour /\ opt.uid \in Nat
        /\ h \in 1 .. MaxOptions /\ q \in DOMAIN packs
    <3>1. opt \in OptionsRecord(created) /\ created \in Nat
      BY <1>0, <1>2
    <3>2. opt.behaviour \in PluginEndBehaviour /\ opt.uid \in Nat
      BY <3>1 DEF OptionsRecord
    <3>3. QED
      BY <1>0, <1>2, <3>2
  <2>5. used'.options = used.options
    <3>1. HighWater(used.options, h) = used.options
      BY <1>2, UsedHandles DEF HighWater
    <3>2. QED
      BY <1>0, <2>1, <3>1
  <2>6. /\ DOMAIN options' \subseteq 1 .. MaxOptions
        /\ DOMAIN options' \subseteq 1 .. used'.options
        /\ used'.options \in 0 .. MaxOptions /\ used'.options <= created'
        /\ \A k \in DOMAIN options' : options'[k] \in OptionsRecord(created')
        /\ created' \in 0 .. MaxOptions
    BY <1>0, <2>2, <2>3, <2>5, UsedHandles
  <2> HIDE DEF q, opt
  <2>7. SendFacts(e, rh, h, opt.uid, q, opt.behaviour)
    BY <2>1, <2>4, <2>6 DEF SendFacts, NewRequest
  <2>8. QED
    BY <2>7
<1>3. QED
  BY <1>1, <1>2

\* A new request has an entry, an engine that is served, and no past.
LEMMA SendRequestStep ==
    ASSUME IInv, NEW h \in DOMAIN options \cup {0}, NEW e \in Engine, SendRequest(h, e)
    PROVE  IInv'
<1>0. /\ PluginRuns /\ sent < MaxRequests /\ sent' = sent + 1
      /\ UNCHANGED <<current, loop_vars>>
  BY DEF SendRequest
<1>1. PICK rh, id, uid, q, b : SendFacts(e, rh, id, uid, q, b)
  BY SendRequestFacts
<1>2. EngineReady(q, b, e)
  BY <1>1, GetEasyHttpReady DEF SendFacts
<1>r. PICK r : r = sent + 1
  OBVIOUS
<1>3. /\ r \in Request /\ r \notin Sent /\ Sent' = Sent \cup {r} /\ sent \in Nat
      /\ sent' \in 0 .. MaxRequests /\ Sent \subseteq Request /\ sent' = r
  BY <1>0, <1>r, ModuleBounds, UsedHandles DEF Sent, Request
<1>4. /\ rh \notin DOMAIN requests /\ rh \in 1 .. used.requests + 1 /\ rh \in Nat
      /\ HighWater(used.requests, rh) \in Nat
      /\ used.requests <= HighWater(used.requests, rh)
      /\ rh <= HighWater(used.requests, rh)
      /\ HighWater(used.requests, rh) <= used.requests + 1
  <2>1. rh \in FreeHandles(requests, used.requests)
    BY <1>1 DEF SendFacts
  <2>2. used.requests \in Nat /\ DOMAIN requests \subseteq 1 .. used.requests
    BY UsedHandles
  <2>3. /\ rh \notin DOMAIN requests /\ rh \in 1 .. used.requests + 1
        /\ HighWater(used.requests, rh) \in Nat
        /\ used.requests <= HighWater(used.requests, rh)
        /\ rh <= HighWater(used.requests, rh)
        /\ HighWater(used.requests, rh) <= used.requests + 1
    BY <2>1, <2>2, FreeHandle
  <2>4. QED
    BY <2>2, <2>3
<1>5. /\ requests' = With(requests, rh, r) /\ id \in Nat /\ uid \in Nat
      /\ req' = [req EXCEPT ![r] = NewRequest(rh, id, uid, q, e)]
      /\ used' = [used EXCEPT !.options = HighWater(@, id), !.requests = HighWater(@, rh)]
      /\ q \in DOMAIN packs /\ b \in PluginEndBehaviour
  BY <1>1, <1>r, ModuleBounds DEF SendFacts
<1>6. /\ req' \in [Request -> RequestRecord]
      /\ \A s \in Request \ {r} : req'[s] = req[s]
      /\ req'[r].state = "queued" /\ req'[r].handle = rh /\ req'[r].engine = e
      /\ req'[r].map = map /\ ~req'[r].forgotten
      /\ req'[r].late <=> phase \notin {"play", "frame", "drain"}
  <2>1. q \in Nat /\ e \in Nat
    BY <1>5, ModuleBounds DEF Engine, IInv, TypeOK, Queue
  <2>2. r \in Request /\ rh \in Nat /\ id \in Nat /\ uid \in Nat
    BY <1>3, <1>4, <1>5
  <2>3. req' = [req EXCEPT ![r] = NewRequest(rh, id, uid, q, e)]
    BY <1>5
  <2>4. req \in [Request -> RequestRecord]
    BY DEF IInv, RequestsOK
  <2>5. /\ req'[r] = NewRequest(rh, id, uid, q, e)
        /\ \A s \in Request \ {r} : req'[s] = req[s]
    BY <2>2, <2>3, <2>4
  <2>6. req'[r] \in RequestRecord
    BY <2>1, <2>2, <2>5, NewRecord
  <2>7. req' \in [Request -> RequestRecord]
    BY <2>2, <2>3, <2>4, <2>5, <2>6
  <2> DEFINE n == NewRequest(rh, id, uid, q, e)
  <2>8. /\ n.state = "queued" /\ n.handle = rh /\ n.engine = e /\ n.map = map
        /\ ~n.forgotten /\ (n.late <=> phase \notin {"play", "frame", "drain"})
    BY DEF NoRequest, NewRequest
  <2> HIDE DEF n
  <2>9. req'[r] = n
    BY <2>5 DEF n
  <2>10. QED
    BY <2>5, <2>7, <2>8, <2>9
<1>7. /\ DOMAIN requests' = DOMAIN requests \cup {rh}
      /\ requests' = [k \in DOMAIN requests' |-> requests'[k]]
      /\ requests'[rh] = r
      /\ \A k \in DOMAIN requests : requests'[k] = requests[k]
  <2>1. requests' = [k \in DOMAIN requests \cup {rh} |-> IF k = rh THEN r ELSE requests[k]]
    BY <1>5 DEF With
  <2>2. QED
    BY <1>4, <2>1
<1>8. \A s \in Sent : s \in Request /\ s # r /\ req'[s] = req[s]
  BY <1>3, <1>6
<1>9. /\ used' \in [options : 0 .. MaxOptions, requests : 0 .. MaxRequests, packs : Queue]
      /\ used'.requests = HighWater(used.requests, rh) /\ used'.packs = used.packs
  <2>1. used \in [options : 0 .. MaxOptions, requests : 0 .. MaxRequests, packs : Queue]
    BY DEF IInv, TypeOK
  <2>2. HighWater(used.options, id) \in 0 .. MaxOptions
    <3>1. used'.options = HighWater(used.options, id)
      BY <1>5, <2>1
    <3>2. QED
      BY <1>1, <3>1 DEF SendFacts
  <2>3. HighWater(used.requests, rh) \in 0 .. MaxRequests
    BY <1>0, <1>4, UsedHandles, ModuleBounds
  <2>4. QED
    BY <1>5, <2>1, <2>2, <2>3
<1>10. TypeOK'
  <2>1. requests' \in [DOMAIN requests' -> Sent']
    <3>1. \A k \in DOMAIN requests' : requests'[k] \in Sent'
      BY <1>3, <1>7 DEF IInv, TypeOK
    <3>2. QED
      BY <1>7, <3>1
  <2>2. \A s \in Request : req'[s].state \in State
    BY <1>6 DEF RequestRecord
  <2>3. /\ DOMAIN options' \subseteq 1 .. MaxOptions /\ created' \in 0 .. MaxOptions
        /\ \A k \in DOMAIN options' : options'[k] \in OptionsRecord(created')
    BY <1>1 DEF SendFacts
  <2>4. /\ engines' \in 0 .. MaxEngines /\ engine_of_main' \subseteq 1 .. engines'
        /\ packs' \in [DOMAIN packs' -> [PluginEndBehaviour -> 0 .. engines']]
        /\ DOMAIN packs' = DOMAIN packs /\ forgotten_engines' = forgotten_engines
        /\ engines <= engines'
    BY <1>2 DEF EngineReady
  <2>5. forgotten_engines' \subseteq 1 .. engines' /\ dying' \in 0 .. engines'
    BY <1>0, <2>4, UsedHandles DEF IInv, TypeOK
  <2>6. current' \in Sent' \cup {0}
    BY <1>0, <1>3 DEF IInv, TypeOK
  <2>7. QED
    BY <1>0, <1>3, <1>9, <2>1, <2>2, <2>3, <2>4, <2>5, <2>6
    DEF IInv, TypeOK, OptionsRecord, State
<1>11. RequestsOK'
  <2>1. engines <= engines' /\ engines' \in Nat /\ engines \in Nat /\ e \in 1 .. engines'
    BY <1>2, UsedHandles DEF EngineReady
  <2>2. \A s \in Sent' : req'[s].engine \in 1 .. engines'
    BY <1>3, <1>6, <1>8, <2>1 DEF IInv, RequestsOK
  <2>3. \A s \in Request : s \in Sent' <=> req'[s].state # "unsent"
    BY <1>3, <1>6 DEF IInv, RequestsOK
  <2>4. current' # 0 => req'[current'].state = "calling"
    BY <1>0, <1>8 DEF IInv, RequestsOK, TypeOK
  <2>5. QED
    BY <1>6, <2>2, <2>3, <2>4 DEF RequestsOK
<1>12. TablesOK'
  <2>1. DOMAIN options' \subseteq 1 .. used'.options /\ used'.options <= created'
    BY <1>1 DEF SendFacts
  <2>2. DOMAIN requests' \subseteq 1 .. used'.requests /\ used'.requests <= sent'
    BY <1>0, <1>4, <1>7, <1>9, UsedHandles
  <2>3. DOMAIN packs' \subseteq 1 .. used'.packs
    BY <1>2, <1>9, UsedHandles DEF EngineReady
  <2>4. QED
    BY <2>1, <2>2, <2>3 DEF TablesOK
<1>13. EntriesMatch'
  <2>1. \A k \in DOMAIN requests : requests[k] \in Sent
    BY DEF IInv, TypeOK
  <2>2. \A s \in Sent' : req'[s].state # "called" =>
           req'[s].handle \in DOMAIN requests' /\ requests'[req'[s].handle] = s
    BY <1>3, <1>6, <1>7, <1>8 DEF IInv, EntriesMatch
  <2>3. \A k \in DOMAIN requests' :
           req'[requests'[k]].handle = k /\ req'[requests'[k]].state # "called"
    BY <1>6, <1>7, <1>8, <2>1 DEF IInv, EntriesMatch
  <2>4. QED
    BY <2>2, <2>3 DEF EntriesMatch
<1>14. LoopShape'
  <2>1. phase # "remove"
    BY <1>0, PluginPhase
  <2>2. QED
    BY <1>0, <1>2, <2>1 DEF IInv, LoopShape, InLoop, EngineReady
<1>15. EnginesApart'
  <2>1. ASSUME NEW p \in DOMAIN packs, NEW c \in PluginEndBehaviour, packs'[p][c] # 0
        PROVE  /\ packs'[p][c] \notin forgotten_engines' /\ packs'[p][c] # dying'
               /\ \A u \in DOMAIN packs, d \in PluginEndBehaviour :
                     packs'[u][d] = packs'[p][c] => u = p /\ d = c
    <3>1. CASE p = q /\ c = b
      BY <1>0, <1>2, <3>1 DEF EngineReady
    <3>2. CASE ~(p = q /\ c = b)
      <4>1. packs'[p][c] = packs[p][c] /\ packs'[p][c] # e
        BY <1>2, <3>2 DEF EngineReady
      <4>2. QED
        BY <1>0, <1>2, <2>1, <4>1 DEF IInv, EnginesApart, EngineReady
    <3>3. QED
      BY <3>1, <3>2
  <2>2. QED
    BY <1>2, <2>1 DEF EnginesApart, EngineReady
<1>16. \A s \in Sent : req[s].engine # 0
  BY UsedHandles DEF IInv, RequestsOK
<1>17. EveryEngineServed'
  <2>1. \A x \in Served : x # 0 => x \in Served'
    BY <1>2 DEF Served, EngineReady
  <2>2. e \in Served'
    BY <1>2, <1>5 DEF Served, EngineReady
  <2>3. QED
    BY <1>0, <1>3, <1>6, <1>8, <1>16, <2>1, <2>2 DEF IInv, EveryEngineServed
<1>18. ForgottenSilent' /\ SetAside'
  BY <1>2, <1>3, <1>6, <1>8 DEF IInv, ForgottenSilent, SetAside, EngineReady
<1>19. LoopCovers'
  <2>1. InLoop' = InLoop
    BY <1>0 DEF InLoop
  <2>2. InLoop => \A x \in Ahead : x # 0 => x \in Ahead'
    <3> SUFFICES ASSUME InLoop, NEW x \in Ahead, x # 0 PROVE x \in Ahead'
      OBVIOUS
    <3>1. CASE \E p \in todo, c \in PluginEndBehaviour : x = packs[p][c]
      BY <1>0, <1>2, <3>1 DEF IInv, LoopShape, Ahead, EngineReady
    <3>2. CASE x = dying
      BY <1>0, <3>2 DEF Ahead
    <3>3. CASE phase = "forget" /\ x = packs[visiting]["ForgetRequests"]
      <4>1. visiting \in DOMAIN packs /\ "ForgetRequests" \in PluginEndBehaviour
        BY <3>3 DEF IInv, LoopShape, PluginEndBehaviour
      <4>2. packs'[visiting]["ForgetRequests"] = x
        BY <1>2, <3>3, <4>1 DEF EngineReady
      <4>3. QED
        BY <1>0, <3>3, <4>2 DEF Ahead
    <3>4. QED
      BY <3>1, <3>2, <3>3 DEF Ahead
  <2>3. \A s \in Sent : Old(s)' = Old(s)
    BY <1>8 DEF Old
  <2>4. ASSUME NEW s \in Sent, Old(s)'
        PROVE  /\ InLoop' => req'[s].engine \in Ahead'
               /\ phase' \in {"play", "frame", "drain"} => req'[s].map = map'
    BY <1>0, <1>8, <1>16, <2>1, <2>2, <2>3, <2>4 DEF IInv, LoopCovers
  <2>5. ASSUME Old(r)'
        PROVE  /\ InLoop' => req'[r].engine \in Ahead'
               /\ phase' \in {"play", "frame", "drain"} => req'[r].map = map'
    BY <1>0, <1>6, <2>1, <2>5 DEF Old, InLoop
  <2>6. QED
    BY <1>3, <2>4, <2>5 DEF LoopCovers
<1>20. QED
  BY <1>10, <1>11, <1>12, <1>13, <1>14, <1>15, <1>17, <1>18, <1>19 DEF IInv

-----------------------------------------------------------------------------
(* Frames and the ends of the loop: no request and no pack changes. *)

\* What such a step keeps of the tables; requests may get a flag meanwhile.
LEMMA TablesKept ==
    ASSUME IInv, RequestsKept, UNCHANGED <<table_vars, engines, sent, current>>,
           DOMAIN packs' \subseteq DOMAIN packs,
           \A r \in Request : req'[r].state = req[r].state,
           \A r \in Request : req'[r].forgotten => req'[r].state \notin {"calling", "called"}
    PROVE  /\ RequestsOK' /\ TablesOK' /\ EntriesMatch' /\ ForgottenSilent'
           /\ Sent' = Sent /\ Sent \subseteq Request
<1>1. Sent' = Sent /\ Sent \subseteq Request
  BY SentRequests DEF IInv, Sent
<1>2. RequestsOK'
  <2>1. current # 0 => req'[current].state = "calling"
    BY <1>1 DEF IInv, TypeOK, RequestsOK
  <2>2. QED
    BY <1>1, <2>1 DEF IInv, RequestsOK, RequestsKept
<1>3. TablesOK'
  BY DEF IInv, TablesOK
<1>4. EntriesMatch'
  <2>1. \A h \in DOMAIN requests : requests[h] \in Request
    BY <1>1 DEF IInv, TypeOK
  <2>2. QED
    BY <1>1, <2>1 DEF IInv, EntriesMatch, RequestsKept
<1>5. ForgottenSilent'
  BY <1>1 DEF ForgottenSilent
<1>6. QED
  BY <1>1, <1>2, <1>3, <1>4, <1>5

\* The same when req does not change.
LEMMA TablesSame ==
    ASSUME IInv, UNCHANGED <<table_vars, engines, sent, current, req>>,
           DOMAIN packs' \subseteq DOMAIN packs
    PROVE  /\ RequestsOK' /\ TablesOK' /\ EntriesMatch' /\ ForgottenSilent'
           /\ Sent' = Sent /\ Sent \subseteq Request
           /\ \A r : Old(r)' = Old(r)
<1>1. RequestsKept
  BY DEF IInv, RequestsOK, RequestsKept
<1>2. \A r : Old(r)' = Old(r)
  BY DEF Old
<1>3. \A r \in Request : req'[r].forgotten => req'[r].state \notin {"calling", "called"}
  BY RecordOf
<1>4. QED
  BY <1>1, <1>2, <1>3, TablesKept

\* Every request sent has an engine.
LEMMA HasEngine ==
    ASSUME IInv, NEW r \in Sent
    PROVE  req[r].engine # 0
BY UsedHandles DEF IInv, RequestsOK

\* A frame begins, of the game or of the map change; or a callback crashes.
LEMMA PhaseStep ==
    ASSUME IInv, CallbackCrashes \/ StartFrame \/ ServerDeactivate
    PROVE  IInv'
<1>1. UNCHANGED <<table_vars, engine_vars, req, sent, current, todo, visiting,
                  dying, map, alive>>
  BY DEF CallbackCrashes, StartFrame, ServerDeactivate
<1>2. \/ phase' = "crashed"
      \/ phase = "play" /\ phase' = "frame" /\ current = 0
      \/ phase = "play" /\ phase' = "drain" /\ current = 0 /\ map < MaxMaps
  BY DEF CallbackCrashes, StartFrame, ServerDeactivate
<1>3. /\ RequestsOK' /\ TablesOK' /\ EntriesMatch' /\ ForgottenSilent'
      /\ Sent' = Sent /\ \A r : Old(r)' = Old(r)
  BY <1>1, TablesSame
<1>4. phase' \in Phase
  BY <1>2 DEF Phase
<1>5. TypeOK'
  BY <1>1, <1>3, <1>4 DEF IInv, TypeOK
<1>6. LoopShape'
  BY <1>1, <1>2 DEF IInv, LoopShape, InLoop
<1>7. EnginesApart' /\ SetAside'
  BY <1>1, <1>3 DEF IInv, EnginesApart, SetAside
<1>8. EveryEngineServed'
  <2>1. Served' = Served
    BY <1>1 DEF Served
  <2>2. QED
    BY <1>1, <1>3, <2>1 DEF IInv, EveryEngineServed
<1>9. LoopCovers'
  BY <1>1, <1>2, <1>3 DEF IInv, LoopCovers, InLoop
<1>10. QED
  BY <1>3, <1>5, <1>6, <1>7, <1>8, <1>9 DEF IInv

\* An unfinished request keeps its engine active.
LEMMA KeepsActive ==
    ASSUME NEW r \in Sent, req[r].state \in Unfinished
    PROVE  Active(req[r].engine) # {}
BY DEF Active

\* Outside the loop no destructor runs, and a request that can call back has its
\* engine in a pack: an engine that was set aside has only forgotten requests.
LEMMA OldInPacks ==
    ASSUME IInv, phase \in {"play", "frame", "drain"}
    PROVE  /\ dying = 0
           /\ \A r \in Sent : Old(r) =>
                 \E q \in DOMAIN packs, b \in PluginEndBehaviour : req[r].engine = packs[q][b]
<1>1. dying = 0
  BY DEF IInv, LoopShape
<1>2. ASSUME NEW r \in Sent, Old(r)
      PROVE  \E q \in DOMAIN packs, b \in PluginEndBehaviour : req[r].engine = packs[q][b]
  <2>1. req[r].engine \notin forgotten_engines
    BY <1>2 DEF IInv, SetAside, Old
  <2>2. req[r].engine \in Served
    BY <1>1, <1>2, HasEngine DEF IInv, EveryEngineServed, Old
  <2>3. QED
    BY <2>1, <2>2 DEF Served
<1>3. QED
  BY <1>1, <1>2

\* A frame ends; the last one of a map begins the loop.
LEMMA EndFrameStep ==
    ASSUME IInv, EndFrame
    PROVE  IInv'
<1>1. /\ phase \in {"frame", "drain"} /\ current = 0
      /\ forgotten_engines' = {e \in forgotten_engines : Active(e) # {}}
      /\ \/ phase = "frame" /\ phase' = "play" /\ todo' = todo
         \/ phase = "drain" /\ phase' = "reset" /\ todo' = DOMAIN packs
      /\ UNCHANGED <<table_vars, packs, engine_of_main, engines, req, sent, current,
                     visiting, dying, map, alive>>
  BY DEF EndFrame
<1>2. /\ RequestsOK' /\ TablesOK' /\ EntriesMatch' /\ ForgottenSilent'
      /\ Sent' = Sent /\ \A r : Old(r)' = Old(r)
  BY <1>1, TablesSame
<1>3. /\ dying = 0
      /\ \A r \in Sent : Old(r) =>
            \E q \in DOMAIN packs, b \in PluginEndBehaviour : req[r].engine = packs[q][b]
  BY <1>1, OldInPacks
<1>4. phase' \in Phase /\ todo' \subseteq Queue
  BY <1>1 DEF Phase, IInv, TypeOK
<1>5. TypeOK'
  BY <1>1, <1>2, <1>4 DEF IInv, TypeOK
<1>6. LoopShape'
  BY <1>1, <1>3 DEF IInv, LoopShape, InLoop
<1>7. EnginesApart' /\ SetAside'
  BY <1>1, <1>2 DEF IInv, EnginesApart, SetAside
<1>8. EveryEngineServed'
  <2>1. ASSUME NEW r \in Sent, req[r].state \in Unfinished
        PROVE  req[r].engine \in Served'
    <3>1. req[r].engine \in Served
      BY <1>3, <2>1, HasEngine DEF IInv, EveryEngineServed
    <3>2. Active(req[r].engine) # {}
      BY <2>1, KeepsActive
    <3>3. QED
      BY <1>1, <3>1, <3>2 DEF Served
  <2>2. QED
    BY <1>1, <1>2, <2>1 DEF EveryEngineServed
<1>9. LoopCovers'
  <2>1. CASE phase' = "play"
    BY <1>1, <1>2, <2>1 DEF IInv, LoopCovers, InLoop
  <2>2. CASE phase' = "reset"
    <3>1. \A r \in Sent : Old(r) => req[r].engine \in Ahead'
      BY <1>1, <1>3, <2>2 DEF Ahead
    <3>2. QED
      BY <1>1, <1>2, <2>2, <3>1 DEF LoopCovers
  <2>3. QED
    BY <1>1, <2>1, <2>2
<1>10. QED
  BY <1>2, <1>5, <1>6, <1>7, <1>8, <1>9 DEF IInv

\* The unload begins the loop.
LEMMA DestroyModulesStep ==
    ASSUME IInv, DestroyModules
    PROVE  IInv'
<1>1. /\ phase = "play" /\ current = 0 /\ alive' = FALSE
      /\ phase' = "reset" /\ todo' = DOMAIN packs
      /\ UNCHANGED <<table_vars, engine_vars, req, sent, current, visiting, dying, map>>
  BY DEF DestroyModules
<1>2. /\ RequestsOK' /\ TablesOK' /\ EntriesMatch' /\ ForgottenSilent'
      /\ Sent' = Sent /\ \A r : Old(r)' = Old(r)
  BY <1>1, TablesSame
<1>3. /\ dying = 0
      /\ \A r \in Sent : Old(r) =>
            \E q \in DOMAIN packs, b \in PluginEndBehaviour : req[r].engine = packs[q][b]
  BY <1>1, OldInPacks
<1>4. phase' \in Phase /\ todo' \subseteq Queue /\ alive' \in BOOLEAN
  BY <1>1 DEF Phase, IInv, TypeOK
<1>5. TypeOK'
  BY <1>1, <1>2, <1>4 DEF IInv, TypeOK
<1>6. LoopShape'
  BY <1>1, <1>3 DEF IInv, LoopShape, InLoop
<1>7. EnginesApart' /\ SetAside'
  BY <1>1, <1>2 DEF IInv, EnginesApart, SetAside
<1>8. EveryEngineServed'
  <2>1. Served' = Served
    BY <1>1 DEF Served
  <2>2. QED
    BY <1>1, <1>2, <2>1 DEF IInv, EveryEngineServed
<1>9. LoopCovers'
  <2>1. \A r \in Sent : Old(r) => req[r].engine \in Ahead'
    BY <1>1, <1>3 DEF Ahead
  <2>2. QED
    BY <1>1, <1>2, <2>1 DEF LoopCovers
<1>10. QED
  BY <1>2, <1>5, <1>6, <1>7, <1>8, <1>9 DEF IInv

\* A destructor returns when its engine has nothing left to deliver.
LEMMA DestructorReturnsStep ==
    ASSUME IInv, DestructorReturns
    PROVE  IInv'
<1>1. /\ current = 0 /\ Active(dying) = {} /\ dying' = 0
      /\ UNCHANGED <<table_vars, engine_vars, req, sent, current, phase, todo,
                     visiting, map, alive>>
  BY DEF DestructorReturns
<1>2. /\ RequestsOK' /\ TablesOK' /\ EntriesMatch' /\ ForgottenSilent'
      /\ Sent' = Sent /\ \A r : Old(r)' = Old(r)
  BY <1>1, TablesSame
<1>3. \A r \in Sent : req[r].state \in Unfinished => req[r].engine # dying
  BY <1>1, KeepsActive
<1>4. TypeOK'
  <2>1. dying' \in 0 .. engines'
    BY <1>1, UsedHandles
  <2>2. QED
    BY <1>1, <1>2, <2>1 DEF IInv, TypeOK
<1>5. LoopShape'
  BY <1>1 DEF IInv, LoopShape, InLoop
<1>6. EnginesApart' /\ SetAside'
  BY <1>1, <1>2 DEF IInv, EnginesApart, SetAside
<1>7. EveryEngineServed'
  <2>1. Served' = Served
    BY <1>1 DEF Served
  <2>2. QED
    BY <1>1, <1>2, <1>3, <2>1 DEF IInv, EveryEngineServed
<1>8. LoopCovers'
  <2>1. \A x \in Ahead : x # dying => x \in Ahead'
    BY <1>1 DEF Ahead
  <2>2. \A r \in Sent : Old(r) => req[r].engine # dying
    BY <1>3 DEF Old
  <2>3. InLoop' = InLoop
    BY <1>1 DEF InLoop
  <2>4. QED
    BY <1>1, <1>2, <2>1, <2>2, <2>3 DEF IInv, LoopCovers
<1>9. QED
  BY <1>2, <1>4, <1>5, <1>6, <1>7, <1>8 DEF IInv

\* The loop is over: nothing is ahead of it, so no request that could call back
\* is left but those of its own callbacks.
LEMMA EndResetStep ==
    ASSUME IInv, EndReset
    PROVE  IInv'
<1>1. /\ phase = "reset" /\ current = 0 /\ dying = 0 /\ todo = {}
      /\ \/ alive /\ phase' = "play" /\ map' = map + 1
         \/ ~alive /\ phase' = "cleanup" /\ map' = map
      /\ UNCHANGED <<table_vars, engine_vars, req, sent, current, todo, visiting,
                     dying, alive>>
  BY DEF EndReset, Looping
<1>2. /\ RequestsOK' /\ TablesOK' /\ EntriesMatch' /\ ForgottenSilent'
      /\ Sent' = Sent /\ \A r : Old(r)' = Old(r)
  BY <1>1, TablesSame
<1>3. \A r \in Sent : ~Old(r)
  <2>1. Ahead = {0}
    BY <1>1 DEF Ahead
  <2>2. InLoop
    BY <1>1 DEF InLoop
  <2>3. QED
    BY <2>1, <2>2, HasEngine DEF IInv, LoopCovers
<1>4. phase' \in Phase /\ map' \in 1 .. MaxMaps
  <2>1. phase' \in Phase
    BY <1>1 DEF Phase
  <2>2. map \in 1 .. MaxMaps /\ MaxMaps \in Nat /\ (alive => map < MaxMaps)
    BY <1>1, ModuleBounds DEF IInv, TypeOK, LoopShape, InLoop
  <2>3. QED
    BY <1>1, <2>1, <2>2
<1>5. TypeOK'
  BY <1>1, <1>2, <1>4 DEF IInv, TypeOK
<1>6. LoopShape'
  BY <1>1 DEF LoopShape, InLoop
<1>7. EnginesApart' /\ SetAside'
  BY <1>1, <1>2 DEF IInv, EnginesApart, SetAside
<1>8. EveryEngineServed'
  <2>1. Served' = Served
    BY <1>1 DEF Served
  <2>2. QED
    BY <1>1, <1>2, <2>1 DEF IInv, EveryEngineServed
<1>9. LoopCovers'
  BY <1>2, <1>3 DEF LoopCovers
<1>10. QED
  BY <1>2, <1>5, <1>6, <1>7, <1>8, <1>9 DEF IInv

\* The engines that were set aside go when they have nothing left to deliver.
LEMMA EndCleanupStep ==
    ASSUME IInv, EndCleanup
    PROVE  IInv'
<1>1. /\ phase = "cleanup" /\ \A e \in forgotten_engines : Active(e) = {}
      /\ phase' = "gone" /\ forgotten_engines' = {}
      /\ UNCHANGED <<table_vars, packs, engine_of_main, engines, req, sent, current,
                     todo, visiting, dying, map, alive>>
  BY DEF EndCleanup
<1>2. /\ RequestsOK' /\ TablesOK' /\ EntriesMatch' /\ ForgottenSilent'
      /\ Sent' = Sent /\ \A r : Old(r)' = Old(r)
  BY <1>1, TablesSame
<1>3. TypeOK'
  <2>1. phase' \in Phase /\ forgotten_engines' \subseteq 1 .. engines'
    BY <1>1 DEF Phase
  <2>2. QED
    BY <1>1, <1>2, <2>1 DEF IInv, TypeOK
<1>4. LoopShape'
  BY <1>1 DEF IInv, LoopShape, InLoop
<1>5. EnginesApart' /\ SetAside'
  BY <1>1, <1>2 DEF IInv, EnginesApart, SetAside
<1>6. EveryEngineServed'
  <2>1. ASSUME NEW r \in Sent, req[r].state \in Unfinished
        PROVE  req[r].engine \in Served' \cup {dying}
    <3>1. Active(req[r].engine) # {}
      BY <2>1, KeepsActive
    <3>2. req[r].engine \in Served \cup {dying}
      BY <2>1 DEF IInv, EveryEngineServed
    <3>3. QED
      BY <1>1, <3>1, <3>2 DEF Served
  <2>2. QED
    BY <1>1, <1>2, <2>1 DEF EveryEngineServed
<1>7. LoopCovers'
  BY <1>1 DEF LoopCovers, InLoop
<1>8. QED
  BY <1>2, <1>3, <1>4, <1>5, <1>6, <1>7 DEF IInv

-----------------------------------------------------------------------------
(* One queue of the loop. *)

\* A pack loses its engine for one behaviour.
PackWithout(q, b) ==
    /\ DOMAIN packs' = DOMAIN packs
    /\ packs' \in [DOMAIN packs -> [PluginEndBehaviour -> 0 .. engines]]
    /\ packs'[q][b] = 0
    /\ \A p \in DOMAIN packs, c \in PluginEndBehaviour :
          ~(p = q /\ c = b) => packs'[p][c] = packs[p][c]

\* unique_ptr::reset and std::move leave a null pointer.
LEMMA EngineLeaves ==
    ASSUME IInv, NEW q \in DOMAIN packs, NEW b \in PluginEndBehaviour,
           packs' = [packs EXCEPT ![q][b] = 0]
    PROVE  PackWithout(q, b)
<1>1. packs \in [DOMAIN packs -> [PluginEndBehaviour -> 0 .. engines]] /\ 0 \in 0 .. engines
  BY UsedHandles DEF IInv, TypeOK
<1>2. /\ DOMAIN packs' = DOMAIN packs
      /\ packs' = [p \in DOMAIN packs |-> packs'[p]]
      /\ \A p \in DOMAIN packs : p # q => packs'[p] = packs[p]
      /\ packs'[q] = [packs[q] EXCEPT ![b] = 0]
  BY <1>1
<1>3. \A p \in DOMAIN packs : packs[p] \in [PluginEndBehaviour -> 0 .. engines]
  BY <1>1
<1>4. /\ packs'[q] \in [PluginEndBehaviour -> 0 .. engines] /\ packs'[q][b] = 0
      /\ \A c \in PluginEndBehaviour : c # b => packs'[q][c] = packs[q][c]
  BY <1>1, <1>2, <1>3
<1>5. packs' \in [DOMAIN packs -> [PluginEndBehaviour -> 0 .. engines]]
  BY <1>2, <1>3, <1>4
<1>6. QED
  BY <1>2, <1>4, <1>5 DEF PackWithout

\* A flag is set for some requests.
LEMMA FlagStep ==
    ASSUME IInv, NEW A,
           \/ req' = [r \in Request |-> IF r \in A THEN [req[r] EXCEPT !.canceled = TRUE]
                                                  ELSE req[r]]
           \/ req' = [r \in Request |-> IF r \in A THEN [req[r] EXCEPT !.forgotten = TRUE]
                                                  ELSE req[r]]
    PROVE  RequestsKept /\ \A r \in Request : req'[r].state = req[r].state
<1>1. req \in [Request -> RequestRecord]
  BY DEF IInv, RequestsOK
<1>2. ASSUME NEW r \in Request
      PROVE  /\ req'[r] \in RequestRecord
             /\ req'[r].engine = req[r].engine /\ req'[r].handle = req[r].handle
             /\ req'[r].map = req[r].map /\ req'[r].late = req[r].late
             /\ req'[r].state = req[r].state
             /\ req[r].forgotten => req'[r].forgotten
  <2>1. req[r] \in RequestRecord
    BY <1>1
  <2>2. CASE req'[r] = req[r]
    BY <2>1, <2>2
  <2>3. CASE req'[r] = [req[r] EXCEPT !.canceled = TRUE]
    BY <2>1, <2>3 DEF RequestRecord
  <2>4. CASE req'[r] = [req[r] EXCEPT !.forgotten = TRUE]
    BY <2>1, <2>4 DEF RequestRecord
  <2>5. QED
    BY <2>2, <2>3, <2>4
<1>3. req' \in [Request -> RequestRecord]
  BY <1>2
<1>4. QED
  BY <1>2, <1>3 DEF RequestsKept

\* The terminating engine of a queue leaves its pack and is being destroyed.
LEMMA VisitQueueStep ==
    ASSUME IInv, NEW q \in Queue, VisitQueue(q)
    PROVE  IInv'
<1>1. PICK e : e = packs[q]["CancelRequests"]
  OBVIOUS
<1>2. /\ phase = "reset" /\ current = 0 /\ dying = 0 /\ q \in todo
      /\ todo' = todo \ {q} /\ visiting' = q /\ phase' = "forget" /\ dying' = e
      /\ packs' = [packs EXCEPT ![q]["CancelRequests"] = 0]
      /\ req' = [r \in Request |-> IF r \in Active(e)
                                   THEN [req[r] EXCEPT !.canceled = TRUE] ELSE req[r]]
      /\ UNCHANGED <<table_vars, engine_of_main, forgotten_engines, engines, sent,
                     current, map, alive>>
  BY <1>1 DEF VisitQueue, Looping
<1>3. q \in DOMAIN packs /\ todo \subseteq DOMAIN packs /\ InLoop
  BY <1>2 DEF IInv, LoopShape, InLoop
<1>4. "CancelRequests" \in PluginEndBehaviour /\ "ForgetRequests" \in PluginEndBehaviour
  BY DEF PluginEndBehaviour
<1>5. PackWithout(q, "CancelRequests")
  BY <1>2, <1>3, <1>4, EngineLeaves
<1>6. RequestsKept /\ \A r \in Request : req'[r].state = req[r].state
  BY <1>2, FlagStep
<1>7. \A r \in Request : req'[r].forgotten = req[r].forgotten
  <2>1. \A r \in Request : req[r] \in RequestRecord
    BY RecordOf
  <2>2. QED
    BY <1>2, <2>1 DEF RequestRecord
<1>8. /\ RequestsOK' /\ TablesOK' /\ EntriesMatch' /\ ForgottenSilent'
      /\ Sent' = Sent /\ Sent \subseteq Request
  <2>1. \A r \in Request : req'[r].forgotten => req'[r].state \notin {"calling", "called"}
    BY <1>6, <1>7, RecordOf
  <2>2. DOMAIN packs' \subseteq DOMAIN packs
    BY <1>5 DEF PackWithout
  <2>3. QED
    BY <1>2, <1>6, <2>1, <2>2, TablesKept
<1>9. TypeOK'
  <2>1. e \in 0 .. engines
    BY <1>1, <1>3, <1>4 DEF IInv, TypeOK
  <2>2. \A r \in Request : req'[r].state \in State
    BY <1>6 DEF RequestsKept, RequestRecord
  <2>3. phase' \in Phase /\ todo' \subseteq Queue /\ visiting' \in Queue \cup {0}
    BY <1>2 DEF Phase, IInv, TypeOK
  <2>4. /\ packs' \in [DOMAIN packs' -> [PluginEndBehaviour -> 0 .. engines']]
        /\ DOMAIN packs' = DOMAIN packs
    BY <1>2, <1>5 DEF PackWithout
  <2>5. QED
    BY <1>2, <1>8, <2>1, <2>2, <2>3, <2>4 DEF IInv, TypeOK, State
<1>10. LoopShape'
  BY <1>2, <1>3, <1>5 DEF IInv, LoopShape, InLoop, PackWithout
<1>11. EnginesApart'
  <2>1. ASSUME NEW p \in DOMAIN packs, NEW c \in PluginEndBehaviour, packs'[p][c] # 0
        PROVE  packs'[p][c] = packs[p][c] /\ packs[p][c] # e
    <3>1. packs'[p][c] = packs[p][c] /\ ~(p = q /\ c = "CancelRequests")
      BY <1>5, <2>1 DEF PackWithout
    <3>2. QED
      BY <1>1, <1>3, <1>4, <2>1, <3>1 DEF IInv, EnginesApart
  <2>2. QED
    BY <1>2, <1>5, <2>1 DEF IInv, EnginesApart, PackWithout
<1>12. EveryEngineServed'
  <2>1. \A x \in Served : x # 0 => x \in Served' \cup {e}
    BY <1>1, <1>2, <1>5 DEF Served, PackWithout
  <2>2. QED
    BY <1>2, <1>6, <1>8, <2>1, HasEngine DEF IInv, EveryEngineServed, RequestsKept
<1>13. SetAside'
  BY <1>2, <1>6, <1>7, <1>8 DEF IInv, SetAside, RequestsKept
<1>14. LoopCovers'
  <2>1. \A x \in Ahead : x # 0 => x \in Ahead'
    <3> SUFFICES ASSUME NEW x \in Ahead, x # 0 PROVE x \in Ahead'
      OBVIOUS
    <3>1. PICK p \in todo, c \in PluginEndBehaviour : x = packs[p][c]
      BY <1>2 DEF Ahead
    <3>2. CASE p # q
      <4>1. p \in todo' /\ packs'[p][c] = x
        BY <1>2, <1>3, <1>5, <3>1, <3>2 DEF PackWithout
      <4>2. QED
        BY <3>1, <4>1 DEF Ahead
    <3>3. CASE p = q /\ c = "CancelRequests"
      BY <1>1, <1>2, <3>1, <3>3 DEF Ahead
    <3>4. CASE p = q /\ c = "ForgetRequests"
      <4>1. packs'[q]["ForgetRequests"] = x
        BY <1>3, <1>4, <1>5, <3>1, <3>4 DEF PackWithout
      <4>2. QED
        BY <1>2, <4>1 DEF Ahead
    <3>5. QED
      BY <3>1, <3>2, <3>3, <3>4 DEF PluginEndBehaviour
  <2>2. \A r \in Sent : Old(r)' = Old(r)
    BY <1>6, <1>7, <1>8 DEF Old, RequestsKept
  <2>3. \A r \in Sent : Old(r) => req'[r].engine \in Ahead'
    BY <1>3, <1>6, <1>8, <2>1, HasEngine DEF IInv, LoopCovers, RequestsKept
  <2>4. QED
    BY <1>2, <1>8, <2>2, <2>3 DEF LoopCovers
<1>15. QED
  BY <1>8, <1>9, <1>10, <1>11, <1>12, <1>13, <1>14 DEF IInv

\* The forgettable engine of the queue forgets its requests and is set aside.
LEMMA ForgetQueueStep ==
    ASSUME IInv, ForgetQueue
    PROVE  IInv'
<1>1. PICK e, v : e = packs[visiting]["ForgetRequests"] /\ v = visiting
  OBVIOUS
<1>2. /\ phase = "forget" /\ current = 0 /\ dying = 0
      /\ packs' = [packs EXCEPT ![v]["ForgetRequests"] = 0]
      /\ forgotten_engines' = forgotten_engines \cup ({e} \ {0})
      /\ req' = [r \in Request |-> IF r \in Active(e)
                                   THEN [req[r] EXCEPT !.forgotten = TRUE] ELSE req[r]]
      /\ \/ phase' = "reset" /\ visiting' = 0
         \/ v # Main /\ phase' = "remove" /\ visiting' = v
      /\ UNCHANGED <<table_vars, engine_of_main, engines, sent, current, todo, dying,
                     map, alive>>
  BY <1>1 DEF ForgetQueue, Looping
<1>3. v \in DOMAIN packs \ todo /\ todo \subseteq DOMAIN packs /\ InLoop
  BY <1>1, <1>2 DEF IInv, LoopShape, InLoop
<1>4. "CancelRequests" \in PluginEndBehaviour /\ "ForgetRequests" \in PluginEndBehaviour
  BY DEF PluginEndBehaviour
<1>5. PackWithout(v, "ForgetRequests")
  BY <1>2, <1>3, <1>4, EngineLeaves
<1>6. RequestsKept /\ \A r \in Request : req'[r].state = req[r].state
  BY <1>2, FlagStep
<1>7. \A r \in Request : req'[r].forgotten <=> (req[r].forgotten \/ r \in Active(e))
  <2>1. \A r \in Request : req[r] \in RequestRecord
    BY RecordOf
  <2>2. QED
    BY <1>2, <2>1 DEF RequestRecord
<1>8. /\ RequestsOK' /\ TablesOK' /\ EntriesMatch' /\ ForgottenSilent'
      /\ Sent' = Sent /\ Sent \subseteq Request
  <2>1. \A r \in Request : r \in Active(e) => req[r].state \notin {"calling", "called"}
    BY DEF Active, Unfinished
  <2>2. \A r \in Request : req'[r].forgotten => req'[r].state \notin {"calling", "called"}
    BY <1>6, <1>7, <2>1, RecordOf
  <2>3. DOMAIN packs' \subseteq DOMAIN packs
    BY <1>5 DEF PackWithout
  <2>4. QED
    BY <1>2, <1>6, <2>2, <2>3, TablesKept
<1>9. TypeOK'
  <2>1. e \in 0 .. engines
    BY <1>1, <1>3, <1>4 DEF IInv, TypeOK
  <2>2. \A r \in Request : req'[r].state \in State
    BY <1>6 DEF RequestsKept, RequestRecord
  <2>3. phase' \in Phase /\ visiting' \in Queue \cup {0}
    BY <1>2, <1>3 DEF Phase, IInv, TypeOK
  <2>4. /\ packs' \in [DOMAIN packs' -> [PluginEndBehaviour -> 0 .. engines']]
        /\ DOMAIN packs' = DOMAIN packs
    BY <1>2, <1>5 DEF PackWithout
  <2>5. forgotten_engines' \subseteq 1 .. engines'
    BY <1>2, <2>1, UsedHandles DEF IInv, TypeOK
  <2>6. QED
    BY <1>2, <1>8, <2>2, <2>3, <2>4, <2>5 DEF IInv, TypeOK, State
<1>10. LoopShape'
  BY <1>2, <1>3, <1>5 DEF IInv, LoopShape, InLoop, PackWithout
<1>11. EnginesApart'
  <2>1. ASSUME NEW p \in DOMAIN packs, NEW c \in PluginEndBehaviour, packs'[p][c] # 0
        PROVE  packs'[p][c] = packs[p][c] /\ packs[p][c] # e
    <3>1. packs'[p][c] = packs[p][c] /\ ~(p = v /\ c = "ForgetRequests")
      BY <1>5, <2>1 DEF PackWithout
    <3>2. QED
      BY <1>1, <1>3, <1>4, <2>1, <3>1 DEF IInv, EnginesApart
  <2>2. QED
    BY <1>2, <1>5, <2>1 DEF IInv, EnginesApart, PackWithout
<1>12. EveryEngineServed'
  <2>1. \A x \in Served : x # 0 => x \in Served'
    BY <1>1, <1>2, <1>5 DEF Served, PackWithout
  <2>2. QED
    BY <1>2, <1>6, <1>8, <2>1, HasEngine DEF IInv, EveryEngineServed, RequestsKept
<1>13. \A r \in Sent : req[r].engine = e /\ req[r].state \in Unfinished => req'[r].forgotten
  BY <1>7, <1>8 DEF Active
<1>14. SetAside'
  BY <1>2, <1>6, <1>8, <1>13 DEF IInv, SetAside, RequestsKept
<1>15. LoopCovers'
  <2>1. \A x \in Ahead : x # 0 /\ x # e => x \in Ahead'
    <3> SUFFICES ASSUME NEW x \in Ahead, x # 0, x # e PROVE x \in Ahead'
      OBVIOUS
    <3>1. PICK p \in todo, c \in PluginEndBehaviour : x = packs[p][c]
      BY <1>1, <1>2 DEF Ahead
    <3>2. p \in todo' /\ packs'[p][c] = x
      BY <1>2, <1>3, <1>5, <3>1 DEF PackWithout
    <3>3. QED
      BY <3>1, <3>2 DEF Ahead
  <2>2. \A r \in Sent : Old(r)' => Old(r) /\ req[r].engine # e
    BY <1>6, <1>7, <1>8, <1>13 DEF Old, RequestsKept
  <2>3. \A r \in Sent : Old(r)' => req'[r].engine \in Ahead'
    BY <1>3, <1>6, <1>8, <2>1, <2>2, HasEngine DEF IInv, LoopCovers, RequestsKept
  <2>4. QED
    BY <1>2, <1>8, <2>3 DEF LoopCovers
<1>16. QED
  BY <1>8, <1>9, <1>10, <1>11, <1>12, <1>14, <1>15 DEF IInv

\* A user queue goes; its forgettable engine is gone already, and a terminating
\* one that was re-created is being destroyed.
LEMMA RemoveQueueStep ==
    ASSUME IInv, RemoveQueue
    PROVE  IInv'
<1>1. PICK e, v : e = packs[visiting]["CancelRequests"] /\ v = visiting
  OBVIOUS
<1>2. /\ phase = "remove" /\ current = 0 /\ dying = 0
      /\ packs' = Without(packs, v)
      /\ dying' = e /\ visiting' = 0 /\ phase' = "reset"
      /\ UNCHANGED <<table_vars, engine_of_main, forgotten_engines, engines, req, sent,
                     current, todo, map, alive>>
  BY <1>1 DEF RemoveQueue, Looping
<1>3. /\ v \in DOMAIN packs \ todo /\ todo \subseteq DOMAIN packs /\ InLoop
      /\ v # Main /\ packs[v]["ForgetRequests"] = 0
  BY <1>1, <1>2 DEF IInv, LoopShape, InLoop
<1>4. "CancelRequests" \in PluginEndBehaviour /\ "ForgetRequests" \in PluginEndBehaviour
  BY DEF PluginEndBehaviour
<1>5. /\ DOMAIN packs' = DOMAIN packs \ {v}
      /\ packs' = [p \in DOMAIN packs' |-> packs'[p]]
      /\ \A p \in DOMAIN packs' : packs'[p] = packs[p]
  BY <1>2 DEF Without
<1>6. /\ RequestsOK' /\ TablesOK' /\ EntriesMatch' /\ ForgottenSilent'
      /\ Sent' = Sent /\ \A r : Old(r)' = Old(r)
  <2>1. DOMAIN packs' \subseteq DOMAIN packs
    BY <1>5
  <2>2. QED
    BY <1>2, <2>1, TablesSame
<1>7. TypeOK'
  <2>1. e \in 0 .. engines
    BY <1>1, <1>3, <1>4 DEF IInv, TypeOK
  <2>2. packs' \in [DOMAIN packs' -> [PluginEndBehaviour -> 0 .. engines]]
    <3>1. \A p \in DOMAIN packs' : packs'[p] \in [PluginEndBehaviour -> 0 .. engines]
      BY <1>5 DEF IInv, TypeOK
    <3>2. QED
      BY <1>5, <3>1
  <2>3. Main \in DOMAIN packs' /\ DOMAIN packs' \subseteq Queue
    BY <1>3, <1>5 DEF IInv, TypeOK
  <2>4. phase' \in Phase
    BY <1>2 DEF Phase
  <2>5. QED
    BY <1>2, <1>6, <2>1, <2>2, <2>3, <2>4 DEF IInv, TypeOK
<1>8. LoopShape'
  BY <1>2, <1>3, <1>5 DEF IInv, LoopShape, InLoop
<1>9. EnginesApart'
  <2>1. ASSUME NEW p \in DOMAIN packs', NEW c \in PluginEndBehaviour, packs'[p][c] # 0
        PROVE  packs'[p][c] = packs[p][c] /\ packs[p][c] # e
    BY <1>1, <1>3, <1>4, <1>5, <2>1 DEF IInv, EnginesApart
  <2>2. QED
    BY <1>2, <1>5, <2>1 DEF IInv, EnginesApart
<1>10. EveryEngineServed'
  <2>1. \A x \in Served : x # 0 => x \in Served' \cup {e}
    BY <1>1, <1>2, <1>3, <1>5 DEF Served, PluginEndBehaviour
  <2>2. QED
    BY <1>2, <1>6, <2>1, HasEngine DEF IInv, EveryEngineServed
<1>11. SetAside'
  BY <1>2, <1>6 DEF IInv, SetAside
<1>12. LoopCovers'
  <2>1. \A x \in Ahead : x # 0 => x \in Ahead'
    BY <1>2, <1>3, <1>5 DEF Ahead
  <2>2. \A r \in Sent : Old(r) => req[r].engine \in Ahead'
    BY <1>3, <2>1, HasEngine DEF IInv, LoopCovers
  <2>3. QED
    BY <1>2, <1>6, <2>2 DEF LoopCovers
<1>13. QED
  BY <1>6, <1>7, <1>8, <1>9, <1>10, <1>11, <1>12 DEF IInv

-----------------------------------------------------------------------------
(* The invariant and what follows from it. *)

\* The module as OnAmxxAttach leaves it.
LEMMA IInvInit == Init => IInv
<1> SUFFICES ASSUME Init PROVE IInv
  OBVIOUS
<1>1. Sent = {}
  BY DEF Init, Sent
<1>2. /\ DOMAIN options = {} /\ DOMAIN requests = {} /\ DOMAIN packs = {Main}
      /\ \A b \in PluginEndBehaviour : packs[Main][b] = 0
  BY DEF Init
<1>3. Main \in Queue /\ 1 \in Queue /\ 0 \in 0 .. engines /\ 1 \in 1 .. MaxMaps
  BY ModuleBounds DEF Init, Main, Queue
<1>4. NoRequest \in RequestRecord /\ NoRequest.state = "unsent"
  BY DEF NoRequest, RequestRecord, State
<1>5. TypeOK
  <2>1. requests \in [DOMAIN requests -> Sent]
    BY <1>1, <1>2 DEF Init
  <2>2. packs \in [DOMAIN packs -> [PluginEndBehaviour -> 0 .. engines]]
    BY <1>3 DEF Init
  <2>3. used \in [options : 0 .. MaxOptions, requests : 0 .. MaxRequests, packs : Queue]
    BY <1>3, ModuleBounds DEF Init
  <2>4. \A r \in Request : req[r].state \in State
    BY <1>4 DEF Init, State
  <2>5. phase \in Phase /\ map \in 1 .. MaxMaps
    BY <1>3 DEF Init, Phase
  <2>6. QED
    BY <1>2, <1>3, <2>1, <2>2, <2>3, <2>4, <2>5, ModuleBounds DEF Init, TypeOK, State
<1>6. RequestsOK
  BY <1>1, <1>4 DEF Init, RequestsOK
<1>7. TablesOK
  BY <1>2 DEF Init, TablesOK, Main
<1>8. EntriesMatch /\ EveryEngineServed /\ ForgottenSilent /\ SetAside /\ LoopCovers
  BY <1>1, <1>2 DEF EntriesMatch, EveryEngineServed, ForgottenSilent, SetAside, LoopCovers
<1>9. LoopShape /\ EnginesApart
  BY <1>2 DEF Init, LoopShape, EnginesApart, InLoop
<1>10. QED
  BY <1>5, <1>6, <1>7, <1>8, <1>9 DEF IInv

\* A step that changes nothing.
LEMMA StutterKeeps ==
    ASSUME IInv, UNCHANGED vars
    PROVE  IInv'
<1>1. UNCHANGED <<table_vars, engine_vars, req, sent, current, loop_vars>>
  BY DEF vars
<1>2. TypeOK' /\ TablesOK'
  BY <1>1 DEF IInv, TypeOK, TablesOK, Sent
<1>3. QED
  BY <1>1, <1>2, OptionsFree DEF IInv

\* Every step of the module keeps the invariant.
LEMMA IInvStep == IInv /\ [Next]_vars => IInv'
<1> SUFFICES ASSUME IInv, [Next]_vars PROVE IInv'
  OBVIOUS
<1>1. CASE Native
  <2>1. ASSUME NEW q \in Queue, NEW b \in PluginEndBehaviour, CreateOptions(q, b)
        PROVE  IInv'
    BY <2>1, CreateOptionsStep
  <2>2. ASSUME NEW h \in DOMAIN options, DestroyOptions(h)
        PROVE  IInv'
    BY <2>2, DestroyOptionsStep
  <2>3. CASE CreateQueue
    BY <2>3, CreateQueueStep
  <2>4. ASSUME NEW h \in DOMAIN options \cup {0}, NEW e \in Engine, SendRequest(h, e)
        PROVE  IInv'
    BY <2>4, SendRequestStep
  <2>5. ASSUME NEW h \in DOMAIN requests, CancelRequest(h)
        PROVE  IInv'
    BY <2>5, CancelRequestStep
  <2>6. QED
    BY <1>1, <2>1, <2>2, <2>3, <2>4, <2>5 DEF Native
<1>2. CASE ServerDeactivate
  BY <1>2, PhaseStep
<1>3. CASE DestroyModules
  BY <1>3, DestroyModulesStep
<1>4. CASE MainStep
  <2>1. ASSUME NEW r \in Request, FrameCall(r)
        PROVE  IInv'
    BY <2>1, DeliverStep DEF FrameCall
  <2>2. ASSUME NEW r \in Request, DestructorCall(r)
        PROVE  IInv'
    BY <2>2, DeliverStep DEF DestructorCall
  <2>3. ASSUME NEW r \in Request, CleanupDrop(r)
        PROVE  IInv'
    BY <2>3, DeliverStep DEF CleanupDrop
  <2>4. CASE CallbackReturns
    BY <2>4, CallbackReturnsStep
  <2>5. CASE CallbackCrashes \/ StartFrame
    BY <2>5, PhaseStep
  <2>6. CASE EndFrame
    BY <2>6, EndFrameStep
  <2>7. ASSUME NEW q \in Queue, VisitQueue(q)
        PROVE  IInv'
    BY <2>7, VisitQueueStep
  <2>8. CASE ForgetQueue
    BY <2>8, ForgetQueueStep
  <2>9. CASE RemoveQueue
    BY <2>9, RemoveQueueStep
  <2>10. CASE DestructorReturns
    BY <2>10, DestructorReturnsStep
  <2>11. CASE EndReset
    BY <2>11, EndResetStep
  <2>12. CASE EndCleanup
    BY <2>12, EndCleanupStep
  <2>13. CASE CleanupSpins
    BY <2>13, StutterKeeps DEF CleanupSpins
  <2>14. QED
    BY <1>4, <2>1, <2>2, <2>3, <2>4, <2>5, <2>6, <2>7, <2>8, <2>9, <2>10, <2>11,
       <2>12, <2>13
    DEF MainStep
<1>5. ASSUME NEW r \in Request, WorkerStep(r)
      PROVE  IInv'
  BY <1>5, WorkerKeeps
<1>6. CASE Terminated \/ UNCHANGED vars
  BY <1>6, StutterKeeps DEF Terminated
<1>7. QED
  BY <1>1, <1>2, <1>3, <1>4, <1>5, <1>6 DEF Next

\* The invariant holds in every state the module reaches.
LEMMA IInvAlways == Spec => []IInv
BY IInvInit, IInvStep, PTL DEF Spec

\* The tables, the packs and the main thread's position keep their types.
THEOREM TypeCorrect == Spec => []TypeOK
<1>1. IInv => TypeOK
  BY DEF IInv
<1>2. QED
  BY <1>1, IInvAlways, PTL

\* From SendRequest to the end of its callback a request owns exactly one entry
\* of requests_: GetRequest in cb_proxy does not throw, and DeleteRequest removes
\* that request and no other.
THEOREM RequestsOwnEntries == Spec => []EntriesMatch
<1>1. IInv => EntriesMatch
  BY DEF IInv
<1>2. QED
  BY <1>1, IInvAlways, PTL

\* No engine with requests is ever lost from the tables, whatever queues and
\* engines the callbacks create while ResetMainAndRemoveUsersQueues runs.
THEOREM NoEngineLost == Spec => []EveryEngineServed
<1>1. IInv => EveryEngineServed
  BY DEF IInv
<1>2. QED
  BY <1>1, IInvAlways, PTL

\* A request whose engine was set aside never calls back.
THEOREM ForgottenNeverCalls == Spec => []ForgottenSilent
<1>1. IInv => ForgottenSilent
  BY DEF IInv
<1>2. QED
  BY <1>1, IInvAlways, PTL

\* The map change interrupts every request of the old map but those that its own
\* callbacks sent.
THEOREM MapChangeInterrupts == Spec => []OldRequestsInterrupted
<1>1. IInv => OldRequestsInterrupted
  <2> SUFFICES ASSUME IInv, phase = "play", NEW r \in Sent,
                      req[r].state \in Unfinished, ~req[r].forgotten, req[r].map < map
               PROVE  req[r].late
    BY DEF OldRequestsInterrupted
  <2>1. map \in Nat
    BY ModuleBounds DEF IInv, TypeOK
  <2>2. req[r].map # map
    BY <2>1
  <2>3. ~Old(r)
    BY <2>2 DEF IInv, LoopCovers
  <2>4. QED
    BY <2>3 DEF Old
<1>2. QED
  BY <1>1, IInvAlways, PTL
=============================================================================
