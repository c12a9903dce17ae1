------------------------- MODULE EasyHttpCancelProofs -------------------------
(***************************************************************************)
(* The order in which EasyHttp serves requests, and what a cancel achieves *)
(* wherever it meets the request: for every number of workers, requests    *)
(* and tasks per frame.                                                    *)
(*                                                                         *)
(* The order of taking is an invariant by itself, given that every sent    *)
(* request is in one place (IInv); that few are overtaken needs a bound    *)
(* for every response in the queue (FewOvertaken), and makes an engine     *)
(* with one worker sequential.  Promises about a cancel are of the form    *)
(* [](Q => []R): for each a predicate is given that Q establishes, that    *)
(* every step keeps, and that implies R.                                   *)
(***************************************************************************)
EXTENDS EasyHttpProofs, FiniteSetTheorems

USE DEF engine_vars, control_vars, main_vars, worker_vars

-----------------------------------------------------------------------------
(* What a step can do to a request. *)

\* Every way in which a worker can move.
WorkerMove(w) ==
    \/ \E from, to \in {"ready", "waiting", "exited"} : Proceed(w, from, to)
    \/ TakeRequest(w)
    \/ CancelCheck(w, "popped", "getsession")
    \/ \E c \in ErrorCode \ {"OK", "FAILED"} :
          Respond(w, "getsession", c) \/ Respond(w, "prepare", c)
    \/ Proceed(w, "getsession", "session")
    \/ CancelCheck(w, "session", "prepare")
    \/ CancelCheck(w, "prepare", "transfer")
    \/ Transfer(w)
    \/ CancelCheck(w, "finished", "respond")
    \/ PostResponse(w)

\* A step of a worker is one of these moves.
LEMMA WorkerMoves ==
    ASSUME NEW w \in Worker, WorkerStep(w) \/ SpuriousWakeup(w)
    PROVE  WorkerMove(w)
<1>1. {"INTERNAL_ERROR", "INVALID_URL_FORMAT"} \subseteq ErrorCode \ {"OK", "FAILED"}
  BY DEF ErrorCode
<1>2. CASE WaitForRequest(w) \/ SpuriousWakeup(w) \/ ExitWorker(w)
  BY <1>2 DEF WaitForRequest, SpuriousWakeup, ExitWorker, WorkerMove
<1>3. CASE GetSession(w) \/ OpenFileFails(w)
  BY <1>1, <1>3 DEF GetSession, OpenFileFails, WorkerMove
<1>4. CASE \/ TakeRequest(w) \/ Transfer(w) \/ PostResponse(w)
           \/ CheckBeforeDispatch(w) \/ CheckBeforeTransfer(w)
           \/ PrepareTransfer(w) \/ CheckAfterTransfer(w)
  BY <1>4 DEF CheckBeforeDispatch, CheckBeforeTransfer, PrepareTransfer,
     CheckAfterTransfer, WorkerMove
<1>5. QED
  BY <1>2, <1>3, <1>4 DEF WorkerStep

\* A step of the main thread takes no request from a worker and gives it none,
\* decides no response, withdraws no cancel, and leaves every request that was
\* sent in the same queue unless it completes it.
MainLeaves ==
    /\ wreq' = wreq /\ code' = code
    /\ canceled \subseteq canceled'
    /\ \A w \in Worker : wpc'[w] = wpc[w] \/ (wpc[w] = "waiting" /\ wpc'[w] = "ready")
    /\ Elements(pending_requests) \subseteq Elements(pending_requests')
    /\ Elements(completed_requests) \cup completed
          \subseteq Elements(completed_requests') \cup completed'

\* Every step that is not a worker's is such a step.
LEMMA MainSteps ==
    ASSUME IInv, Choice \/ MainStep \/ UNCHANGED vars
    PROVE  MainLeaves
<1>1. wpc \in [Worker -> WorkerLabel]
  BY DEF IInv, TypeOK
<1>2. \A ws : wpc' = Wake(ws) =>
        \A w \in Worker : wpc'[w] = wpc[w] \/ (wpc[w] = "waiting" /\ wpc'[w] = "ready")
  BY DEF Wake
<1>3. CASE SendRequest
  <2>1. sent + 1 \in Request
    BY <1>3, BoundAssumption DEF SendRequest, IInv, TypeOK, Request
  <2>2. Elements(pending_requests) \subseteq Elements(pending_requests')
    BY <1>3, <2>1, AppendElements DEF SendRequest, IInv, TypeOK
  <2>3. QED
    BY <1>3, <2>2 DEF SendRequest, MainLeaves
<1>4. CASE RunFrameTask
  <2>1. /\ completed_requests # <<>>
        /\ completed_requests' = Tail(completed_requests)
        /\ completed' = completed \cup {Head(completed_requests)}
    BY <1>4 DEF RunFrameTask, MoreTasks
  <2>2. Elements(completed_requests') = Elements(completed_requests) \ {Head(completed_requests)}
    BY <2>1, TailElements DEF IInv, TypeOK, InOnePlace
  <2>3. QED
    BY <1>4, <2>1, <2>2 DEF RunFrameTask, MainLeaves
<1>5. CASE NotifyOne
  BY <1>2, <1>5 DEF NotifyOne, MainLeaves
<1>6. CASE CancelAllRequests \/ NotifyAll
  BY <1>2, <1>6 DEF CancelAllRequests, NotifyAll, MainLeaves
<1>7. CASE \/ (\E r \in Request : CancelRequest(r)) \/ ForgetAllRequests
           \/ RunFrame \/ CallbackReturns \/ RunFrameSweep \/ Destroy \/ JoinWorkers
           \/ UNCHANGED vars
  BY <1>7 DEF CancelRequest, ForgetAllRequests, RunFrame, CallbackReturns,
     RunFrameSweep, Destroy, JoinWorkers, vars, MainLeaves
<1>8. QED
  BY <1>3, <1>4, <1>5, <1>6, <1>7 DEF Choice, MainStep

-----------------------------------------------------------------------------
(* First come, first served. *)

\* Only SendRequest and TakeRequest touch pending_requests_ and the counter.
LEMMA QueueTouched ==
    ASSUME [Next]_vars
    PROVE  \/ SendRequest
           \/ \E w \in Worker : TakeRequest(w)
           \/ UNCHANGED <<sent, pending_requests>>
<1>1. CASE Choice
  BY <1>1 DEF Choice, CancelRequest, CancelAllRequests, ForgetAllRequests
<1>2. CASE MainStep
  BY <1>2 DEF MainStep, NotifyOne, RunFrame, RunFrameTask, CallbackReturns,
     RunFrameSweep, Destroy, NotifyAll, JoinWorkers
<1>3. CASE \E w \in Worker : WorkerStep(w) \/ SpuriousWakeup(w)
  BY <1>3, WorkerMoves
  DEF WorkerMove, Proceed, Respond, CancelCheck, Transfer, PostResponse
<1>4. CASE UNCHANGED vars
  BY <1>4 DEF vars
<1>5. QED
  BY <1>1, <1>2, <1>3, <1>4 DEF Next, Terminated

\* A request sent joins the end of the queue and is the newest of all.
LEMMA SendKeepsOrder ==
    ASSUME IInv, TakenInOrder, SendRequest
    PROVE  TakenInOrder'
<1> DEFINE q == pending_requests
<1>1. /\ sent \in Nat /\ sent + 1 \in Request /\ sent' = sent + 1
      /\ q' = Append(q, sent + 1) /\ q \in Seq(Request)
  BY BoundAssumption DEF SendRequest, IInv, TypeOK, Request
<1>2. /\ Elements(q') = Elements(q) \cup {sent + 1}
      /\ Len(q) \in Nat /\ Len(q') = Len(q) + 1
      /\ \A i \in 1 .. Len(q) : q'[i] = q[i] /\ q[i] \in Elements(q)
      /\ q'[Len(q) + 1] = sent + 1
  BY <1>1, AppendElements DEF Elements
<1>3. Elements(q) \subseteq Sent
  BY DEF IInv, InOnePlace
<1>4. \A r \in Sent : r < sent + 1
  BY <1>1 DEF Sent
<1>5. Sent' = Sent \cup {sent + 1} /\ Sent \subseteq Int
  BY <1>1 DEF Sent
<1> HIDE DEF q
<1>6. ASSUME NEW i \in 1 .. Len(q'), NEW j \in 1 .. Len(q'), i < j
      PROVE  q'[i] < q'[j]
  <2>1. i \in 1 .. Len(q)
    BY <1>2, <1>6
  <2>2. CASE j \in 1 .. Len(q)
    BY <1>2, <1>6, <2>1, <2>2 DEF TakenInOrder, q
  <2>3. CASE j = Len(q) + 1
    BY <1>2, <1>3, <1>4, <2>1, <2>3
  <2>4. QED
    BY <1>2, <2>2, <2>3
<1>7. ASSUME NEW r \in Elements(q'), NEW s \in Sent' \ Elements(q')
      PROVE  s < r
  BY <1>2, <1>4, <1>5, <1>7 DEF TakenInOrder, q
<1>8. QED
  BY <1>6, <1>7 DEF TakenInOrder, q

\* The request taken is older than every request still pending.
LEMMA TakeKeepsOrder ==
    ASSUME IInv, TakenInOrder, NEW w \in Worker, TakeRequest(w)
    PROVE  TakenInOrder'
<1> DEFINE q == pending_requests
<1>1. /\ q # <<>> /\ q' = Tail(q) /\ q \in Seq(Request) /\ Distinct(q)
      /\ Sent' = Sent
  BY DEF TakeRequest, IInv, TypeOK, InOnePlace, Sent
<1>2. Elements(q') = Elements(q) \ {Head(q)}
  BY <1>1, TailElements
<1>3. /\ Len(q) \in Nat /\ Len(q) > 0 /\ Len(q') = Len(q) - 1 /\ Head(q) = q[1]
      /\ \A i \in 1 .. Len(q) - 1 : q'[i] = q[i + 1]
  BY <1>1
<1>4. \A i, j \in 1 .. Len(q) : i < j => q[i] < q[j]
  BY DEF TakenInOrder
<1> HIDE DEF q
<1>5. ASSUME NEW i \in 1 .. Len(q'), NEW j \in 1 .. Len(q'), i < j
      PROVE  q'[i] < q'[j]
  <2>1. i + 1 \in 1 .. Len(q) /\ j + 1 \in 1 .. Len(q) /\ i + 1 < j + 1
    BY <1>3, <1>5
  <2>2. q'[i] = q[i + 1] /\ q'[j] = q[j + 1]
    BY <1>3
  <2>3. QED
    BY <1>4, <2>1, <2>2
<1>6. ASSUME NEW r \in Elements(q'), NEW s \in Sent' \ Elements(q')
      PROVE  s < r
  <2>1. CASE s = Head(q)
    <3>1. PICK j \in 1 .. Len(q') : r = q'[j]
      BY DEF Elements
    <3>2. r = q[j + 1] /\ 1 \in 1 .. Len(q) /\ j + 1 \in 1 .. Len(q) /\ 1 < j + 1
      BY <1>3, <3>1
    <3>3. QED
      BY <1>3, <1>4, <2>1, <3>2
  <2>2. CASE s # Head(q)
    BY <1>1, <1>2, <2>2 DEF TakenInOrder, q
  <2>3. QED
    BY <2>1, <2>2
<1>7. QED
  BY <1>5, <1>6 DEF TakenInOrder, q

\* Requests are taken in the order in which they were sent.
LEMMA TakenAlways == Spec => []TakenInOrder
<1>1. Init => TakenInOrder
  BY EmptyElements DEF Init, TakenInOrder
<1>2. IInv /\ TakenInOrder /\ [Next]_vars => TakenInOrder'
  <2> SUFFICES ASSUME IInv, TakenInOrder, [Next]_vars
               PROVE  TakenInOrder'
    OBVIOUS
  <2>1. CASE UNCHANGED <<sent, pending_requests>>
    BY <2>1 DEF TakenInOrder, Elements, Sent
  <2>2. QED
    BY <2>1, QueueTouched, SendKeepsOrder, TakeKeepsOrder
<1>3. QED
  BY <1>1, <1>2, IInvAlways, PTL DEF Spec

-----------------------------------------------------------------------------
(* Overtaking. *)

\* Fewer than there are workers.
Few(S) == IsFiniteSet(S) /\ Cardinality(S) < Cardinality(Worker)

\* The responses posted after the i-th of completed_requests_.
Behind(i) ==
    {completed_requests[j] : j \in {k \in 1 .. Len(completed_requests) : i < k}}

\* Who can still be overtaken by a response: earlier requests that a worker has,
\* or whose response was posted later.
OvertakenInQueue(i) == {s \in Taken \cup Behind(i) : s < completed_requests[i]}

\* The same for a request that is completed.
OvertakenByDone(r) == {s \in Taken \cup Elements(completed_requests) : s < r}

FewOvertaken ==
    /\ \A i \in 1 .. Len(completed_requests) : Few(OvertakenInQueue(i))
    /\ \A r \in completed : Few(OvertakenByDone(r))

\* A part of a small set is small.
LEMMA FewSubset ==
    ASSUME NEW S, NEW T, Few(S), T \subseteq S
    PROVE  Few(T)
<1>1. IsFiniteSet(S) /\ Cardinality(S) \in Nat /\ Cardinality(S) < Cardinality(Worker)
  BY FS_CardinalityType DEF Few
<1>2. IsFiniteSet(T) /\ Cardinality(T) <= Cardinality(S)
  BY <1>1, FS_Subset
<1>3. Cardinality(T) \in Nat /\ Cardinality(Worker) \in Nat
  BY <1>2, FS_CardinalityType, WorkerAssumption
<1>4. QED
  BY <1>1, <1>2, <1>3 DEF Few

\* The other workers have fewer requests than there are workers.
LEMMA OthersFew ==
    ASSUME NEW w \in Worker
    PROVE  Few({wreq[v] : v \in Worker \ {w}})
<1> DEFINE V == Worker \ {w}
           T == {wreq[v] : v \in V}
           f == [v \in V |-> wreq[v]]
<1>1. /\ IsFiniteSet(V) /\ Cardinality(V) = Cardinality(Worker) - 1
      /\ Cardinality(Worker) \in Nat /\ Cardinality(V) \in Nat
  BY FS_RemoveElement, FS_CardinalityType, WorkerAssumption
<1>2. f \in Surjection(V, T)
  BY DEF Surjection
<1> HIDE DEF f, T, V
<1>3. IsFiniteSet(T) /\ Cardinality(T) <= Cardinality(V)
  BY <1>1, <1>2, FS_Surjection
<1>4. Cardinality(T) \in Nat
  BY <1>3, FS_CardinalityType
<1>5. Few(T)
  BY <1>1, <1>3, <1>4 DEF Few
<1>6. QED
  BY <1>5 DEF T, V

\* The request taken is newer than all that can overtake.
LEMMA TakeOvertakes ==
    ASSUME IInv, TakenInOrder, FewOvertaken, NEW w \in Worker, TakeRequest(w)
    PROVE  FewOvertaken'
<1>1. PICK h : h = Head(pending_requests)
  OBVIOUS
<1>2. /\ UNCHANGED <<completed_requests, completed>>
      /\ wreq' = [wreq EXCEPT ![w] = h] /\ pending_requests # <<>>
  BY <1>1 DEF TakeRequest
<1>3. h \in Elements(pending_requests) /\ h \in Nat
  <2>1. pending_requests \in Seq(Request) /\ Distinct(pending_requests)
    BY DEF IInv, TypeOK, InOnePlace
  <2>2. h \in Elements(pending_requests) /\ h \in Request
    BY <1>1, <1>2, <2>1, TailElements
  <2>3. QED
    BY <2>2 DEF Request
<1>4. Taken' \subseteq Taken \cup {h}
  BY <1>2 DEF IInv, TypeOK, Taken
<1>5. ASSUME NEW r \in Elements(completed_requests) \cup completed PROVE ~(h < r)
  <2>1. r \in Sent \ Elements(pending_requests) /\ r \in Nat
    BY DEF IInv, InOnePlace, Sent
  <2>2. r < h
    BY <1>3, <2>1 DEF TakenInOrder
  <2>3. QED
    BY <1>3, <2>1, <2>2
<1>6. ASSUME NEW i \in 1 .. Len(completed_requests') PROVE Few(OvertakenInQueue(i)')
  <2>1. /\ i \in 1 .. Len(completed_requests)
        /\ completed_requests[i] \in Elements(completed_requests)
    BY <1>2 DEF Elements
  <2>2. OvertakenInQueue(i)' \subseteq OvertakenInQueue(i)
    BY <1>2, <1>4, <1>5, <2>1 DEF OvertakenInQueue, Behind
  <2>3. QED
    BY <2>1, <2>2, FewSubset DEF FewOvertaken
<1>7. ASSUME NEW r \in completed' PROVE Few(OvertakenByDone(r)')
  <2>1. r \in completed
    BY <1>2
  <2>2. OvertakenByDone(r)' \subseteq OvertakenByDone(r)
    BY <1>2, <1>4, <1>5, <2>1 DEF OvertakenByDone, Elements
  <2>3. QED
    BY <2>1, <2>2, FewSubset DEF FewOvertaken
<1>8. QED
  BY <1>6, <1>7 DEF FewOvertaken, Few

\* A response posted has overtaken only requests that other workers have.
LEMMA PostOvertakes ==
    ASSUME IInv, FewOvertaken, NEW w \in Worker, PostResponse(w)
    PROVE  FewOvertaken'
<1> DEFINE q == completed_requests
<1>1. PICK r : r = wreq[w]
  OBVIOUS
<1>2. /\ completed' = completed /\ q' = Append(q, r) /\ q \in Seq(Request)
      /\ wreq' = [wreq EXCEPT ![w] = 0] /\ wpc[w] = "respond"
  BY <1>1 DEF PostResponse, Goto, IInv, TypeOK
<1>3. r \in Request /\ r # 0 /\ r \in Nat
  BY <1>1, <1>2, BusyRequest DEF Busy, Request
<1>4. /\ Len(q) \in Nat /\ Len(q') = Len(q) + 1
      /\ \A i \in 1 .. Len(q) : q'[i] = q[i]
      /\ q'[Len(q) + 1] = r /\ Elements(q') = Elements(q) \cup {r}
  BY <1>2, <1>3, AppendElements
<1>5. /\ \A v \in Worker : wreq'[v] = IF v = w THEN 0 ELSE wreq[v]
      /\ r \in Taken
  BY <1>1, <1>2, <1>3 DEF IInv, TypeOK, Taken
<1>6. Taken' \subseteq Taken /\ Taken' \subseteq {wreq[v] : v \in Worker \ {w}}
  BY <1>5 DEF Taken
<1> HIDE DEF q
<1>7. ASSUME NEW i \in 1 .. Len(q') PROVE Few(OvertakenInQueue(i)')
  <2>1. CASE i \in 1 .. Len(q)
    <3>1. Behind(i)' \subseteq Behind(i) \cup {r}
      BY <1>4 DEF Behind, q
    <3>2. OvertakenInQueue(i)' \subseteq OvertakenInQueue(i)
      BY <1>4, <1>5, <1>6, <2>1, <3>1 DEF OvertakenInQueue, q
    <3>3. QED
      BY <2>1, <3>2, FewSubset DEF FewOvertaken, q
  <2>2. CASE i = Len(q) + 1
    <3>1. Behind(i)' = {}
      BY <1>4, <2>2 DEF Behind, q
    <3>2. OvertakenInQueue(i)' \subseteq {wreq[v] : v \in Worker \ {w}}
      BY <1>6, <3>1 DEF OvertakenInQueue
    <3>3. QED
      BY <3>2, OthersFew, FewSubset
  <2>3. QED
    BY <1>4, <2>1, <2>2
<1>8. ASSUME NEW s \in completed' PROVE Few(OvertakenByDone(s)')
  <2>1. OvertakenByDone(s)' \subseteq OvertakenByDone(s)
    BY <1>4, <1>5, <1>6 DEF OvertakenByDone, q
  <2>2. QED
    BY <1>2, <2>1, FewSubset DEF FewOvertaken
<1>9. QED
  BY <1>7, <1>8 DEF FewOvertaken, Few, q

\* A response that is popped overtakes those behind it, and no others.
LEMMA TaskOvertakes ==
    ASSUME IInv, FewOvertaken, RunFrameTask
    PROVE  FewOvertaken'
<1> DEFINE q == completed_requests
<1>1. /\ q \in Seq(Request) /\ q # <<>> /\ q' = Tail(q) /\ wreq' = wreq
      /\ completed' = completed \cup {Head(q)}
  BY DEF RunFrameTask, MoreTasks, IInv, TypeOK
<1>2. /\ Len(q) \in Nat /\ Len(q) > 0 /\ Len(q') = Len(q) - 1 /\ Head(q) = q[1]
      /\ \A i \in 1 .. Len(q) - 1 : q'[i] = q[i + 1]
  BY <1>1
<1>3. Taken' = Taken
  BY <1>1 DEF Taken
<1> HIDE DEF q
<1>4. ASSUME NEW i \in 1 .. Len(q') PROVE Few(OvertakenInQueue(i)')
  <2>1. i + 1 \in 1 .. Len(q) /\ q'[i] = q[i + 1]
    BY <1>2
  <2>2. Behind(i)' \subseteq Behind(i + 1)
    <3>1. ASSUME NEW k \in 1 .. Len(q'), i < k
          PROVE  q'[k] = q[k + 1] /\ k + 1 \in 1 .. Len(q) /\ i + 1 < k + 1
      BY <1>2, <3>1
    <3>2. QED
      BY <3>1 DEF Behind, q
  <2>3. OvertakenInQueue(i)' \subseteq OvertakenInQueue(i + 1)
    BY <1>3, <2>1, <2>2 DEF OvertakenInQueue, q
  <2>4. QED
    BY <2>1, <2>3, FewSubset DEF FewOvertaken, q
<1>5. Elements(q') \subseteq Behind(1) /\ Elements(q') \subseteq Elements(q)
  <2>1. ASSUME NEW k \in 1 .. Len(q')
        PROVE  q'[k] = q[k + 1] /\ k + 1 \in 1 .. Len(q) /\ 1 < k + 1
    BY <1>2
  <2>2. QED
    BY <2>1 DEF Behind, Elements, q
<1>6. ASSUME NEW r \in completed' PROVE Few(OvertakenByDone(r)')
  <2>1. CASE r \in completed
    <3>1. OvertakenByDone(r)' \subseteq OvertakenByDone(r)
      BY <1>3, <1>5 DEF OvertakenByDone, q
    <3>2. QED
      BY <2>1, <3>1, FewSubset DEF FewOvertaken
  <2>2. CASE r = Head(q)
    <3>1. 1 \in 1 .. Len(q) /\ r = q[1]
      BY <1>2, <2>2
    <3>2. OvertakenByDone(r)' \subseteq OvertakenInQueue(1)
      BY <1>3, <1>5, <3>1 DEF OvertakenByDone, OvertakenInQueue, q
    <3>3. QED
      BY <3>1, <3>2, FewSubset DEF FewOvertaken, q
  <2>3. QED
    BY <1>1, <2>1, <2>2
<1>7. QED
  BY <1>4, <1>6 DEF FewOvertaken, Few, q

\* Only TakeRequest, PostResponse and RunFrameTask move a request that was sent.
LEMMA PlacesTouched ==
    ASSUME [Next]_vars
    PROVE  \/ RunFrameTask
           \/ \E w \in Worker : TakeRequest(w) \/ PostResponse(w)
           \/ UNCHANGED <<completed_requests, completed, wreq>>
<1>1. CASE Choice
  BY <1>1 DEF Choice, SendRequest, CancelRequest, CancelAllRequests, ForgetAllRequests
<1>2. CASE MainStep
  BY <1>2 DEF MainStep, NotifyOne, RunFrame, CallbackReturns,
     RunFrameSweep, Destroy, NotifyAll, JoinWorkers
<1>3. CASE \E w \in Worker : WorkerStep(w) \/ SpuriousWakeup(w)
  BY <1>3, WorkerMoves DEF WorkerMove, Proceed, Respond, CancelCheck, Transfer
<1>4. CASE UNCHANGED vars
  BY <1>4 DEF vars
<1>5. QED
  BY <1>1, <1>2, <1>3, <1>4 DEF Next, Terminated

\* Overtaking stays bounded.
LEMMA FewAlways == Spec => []FewOvertaken
<1>1. Init => FewOvertaken
  BY DEF Init, FewOvertaken
<1>2. IInv /\ TakenInOrder /\ FewOvertaken /\ [Next]_vars => FewOvertaken'
  <2> SUFFICES ASSUME IInv, TakenInOrder, FewOvertaken, [Next]_vars
               PROVE  FewOvertaken'
    OBVIOUS
  <2>1. CASE UNCHANGED <<completed_requests, completed, wreq>>
    BY <2>1 DEF FewOvertaken, Few, OvertakenInQueue, OvertakenByDone, Behind, Taken,
       Elements
  <2>2. QED
    BY <2>1, PlacesTouched, TakeOvertakes, PostOvertakes, TaskOvertakes
<1>3. QED
  BY <1>1, <1>2, IInvAlways, TakenAlways, PTL DEF Spec

\* What a completed request has overtaken is with a worker or in the queue of
\* responses.
LEMMA OvertakenPlaces ==
    ASSUME IInv, TakenInOrder, NEW r \in completed
    PROVE  Overtaken(r) \subseteq OvertakenByDone(r)
<1>1. r \in Sent \ Elements(pending_requests) /\ r \in Nat
  BY DEF IInv, InOnePlace, Sent
<1>2. ASSUME NEW s \in Sent \ completed, s < r
      PROVE  s \in Taken \cup Elements(completed_requests)
  <2>1. s \in Nat
    BY DEF Sent
  <2>2. s \notin Elements(pending_requests)
    BY <1>1, <1>2, <2>1 DEF TakenInOrder
  <2>3. QED
    BY <2>2 DEF IInv, InOnePlace
<1>3. QED
  BY <1>2 DEF Overtaken, OvertakenByDone

\* Requests are taken in the order in which they were sent, and one that completes
\* has overtaken fewer than there are workers.
THEOREM ServedInOrder == Spec => []FirstComeFirstServed
<1>1. IInv /\ TakenInOrder /\ FewOvertaken => FirstComeFirstServed
  <2> SUFFICES ASSUME IInv, TakenInOrder, FewOvertaken, NEW r \in completed
               PROVE  Cardinality(Overtaken(r)) < Cardinality(Worker)
    BY DEF FirstComeFirstServed
  <2>1. Few(OvertakenByDone(r))
    BY DEF FewOvertaken
  <2>2. Few(Overtaken(r))
    BY <2>1, OvertakenPlaces, FewSubset
  <2>3. QED
    BY <2>2 DEF Few
<1>2. QED
  BY <1>1, IInvAlways, TakenAlways, FewAlways, PTL

-----------------------------------------------------------------------------
(* The engine of a queue has one thread. *)

\* No request completes before one that was sent earlier.
NoneOvertaken == \A r \in completed : Overtaken(r) = {}

\* Callbacks come in the order of sending.
CalledInOrder == \A i, j \in 1 .. Len(called) : i < j => called[i] < called[j]

Sequential == NoneOvertaken /\ CalledInOrder

\* With one worker a completed request has overtaken none.
LEMMA OneThreadOvertakesNone ==
    ASSUME Cardinality(Worker) = 1, IInv, FirstComeFirstServed
    PROVE  NoneOvertaken
<1> SUFFICES ASSUME NEW r \in completed PROVE Overtaken(r) = {}
  BY DEF NoneOvertaken
<1>1. Overtaken(r) \subseteq Sent /\ IsFiniteSet(Sent)
  <2>1. 1 \in Int /\ sent \in Int
    BY DEF IInv, TypeOK
  <2>2. IsFiniteSet(1 .. sent)
    BY <2>1, FS_Interval
  <2>3. QED
    BY <2>2 DEF Overtaken, Sent
<1>2. IsFiniteSet(Overtaken(r)) /\ Cardinality(Overtaken(r)) \in Nat
  BY <1>1, FS_Subset, FS_CardinalityType
<1>3. Cardinality(Overtaken(r)) < 1
  BY DEF FirstComeFirstServed
<1>4. Cardinality(Overtaken(r)) = 0
  BY <1>2, <1>3
<1>5. QED
  BY <1>2, <1>4, FS_EmptySet

\* Each callback is for a newer request than those before it.
LEMMA TaskKeepsOrder ==
    ASSUME IInv, NoneOvertaken, CalledInOrder, RunFrameTask
    PROVE  CalledInOrder'
<1>1. PICK h : h = Head(completed_requests)
  OBVIOUS
<1>2. /\ completed_requests # <<>>
      /\ called' = called \/ called' = Append(called, h)
  BY <1>1 DEF RunFrameTask, MoreTasks
<1>3. h \in Elements(completed_requests) /\ h \in Request
  <2>1. completed_requests \in Seq(Request) /\ Distinct(completed_requests)
    BY DEF IInv, TypeOK, InOnePlace
  <2>2. QED
    BY <1>1, <1>2, <2>1, TailElements
<1>4. h \in Sent \ completed /\ h \in Nat
  BY <1>3 DEF IInv, InOnePlace, Request
<1>5. ASSUME NEW i \in 1 .. Len(called) PROVE called[i] < h
  <2>1. called[i] \in completed
    BY DEF IInv, CalledOnce, Elements
  <2>2. called[i] \in Nat
    <3>1. completed \subseteq Request /\ Request \subseteq Nat
      BY DEF IInv, TypeOK, Request
    <3>2. QED
      BY <2>1, <3>1
  <2>3. ~(h < called[i])
    BY <1>4, <2>1 DEF NoneOvertaken, Overtaken
  <2>4. QED
    BY <1>4, <2>1, <2>2, <2>3
<1>6. called \in Seq(Request)
  BY DEF IInv, TypeOK
<1>7. CASE called' = called
  BY <1>7 DEF CalledInOrder
<1>8. CASE called' = Append(called, h)
  <2>1. /\ Len(called) \in Nat /\ Len(called') = Len(called) + 1
        /\ \A i \in 1 .. Len(called) : called'[i] = called[i]
        /\ called'[Len(called) + 1] = h
    BY <1>3, <1>6, <1>8
  <2>2. ASSUME NEW i \in 1 .. Len(called'), NEW j \in 1 .. Len(called'), i < j
        PROVE  called'[i] < called'[j]
    <3>1. i \in 1 .. Len(called)
      BY <2>1, <2>2
    <3>2. CASE j \in 1 .. Len(called)
      BY <2>1, <2>2, <3>1, <3>2 DEF CalledInOrder
    <3>3. CASE j = Len(called) + 1
      BY <1>5, <2>1, <3>1, <3>3
    <3>4. QED
      BY <2>1, <3>2, <3>3
  <2>3. QED
    BY <2>2 DEF CalledInOrder
<1>9. QED
  BY <1>2, <1>7, <1>8

\* Only RunFrameTask calls back.
LEMMA CalledTouched ==
    ASSUME [Next]_vars
    PROVE  RunFrameTask \/ UNCHANGED called
<1>1. CASE Choice
  BY <1>1 DEF Choice, SendRequest, CancelRequest, CancelAllRequests, ForgetAllRequests
<1>2. CASE MainStep
  BY <1>2 DEF MainStep, NotifyOne, RunFrame, CallbackReturns,
     RunFrameSweep, Destroy, NotifyAll, JoinWorkers
<1>3. CASE \E w \in Worker : WorkerStep(w) \/ SpuriousWakeup(w)
  BY <1>3, WorkerMoves
  DEF WorkerMove, Proceed, Respond, CancelCheck, Transfer, TakeRequest, PostResponse
<1>4. CASE UNCHANGED vars
  BY <1>4 DEF vars
<1>5. QED
  BY <1>1, <1>2, <1>3, <1>4 DEF Next, Terminated

\* A queue is sequential: its engine has one worker, and then callbacks come in the
\* order of sending, each after every request sent before it is completed.
THEOREM QueueIsSequential ==
    ASSUME Cardinality(Worker) = 1
    PROVE  Spec => []Sequential
<1>1. Init => CalledInOrder
  BY DEF Init, CalledInOrder
<1>2. IInv /\ FirstComeFirstServed => NoneOvertaken
  BY OneThreadOvertakesNone
<1>3. IInv /\ NoneOvertaken /\ CalledInOrder /\ [Next]_vars => CalledInOrder'
  <2> SUFFICES ASSUME IInv, NoneOvertaken, CalledInOrder, [Next]_vars
               PROVE  CalledInOrder'
    OBVIOUS
  <2>1. CASE UNCHANGED called
    BY <2>1 DEF CalledInOrder
  <2>2. QED
    BY <2>1, CalledTouched, TaskKeepsOrder
<1>4. QED
  BY <1>1, <1>2, <1>3, IInvAlways, ServedInOrder, PTL DEF Spec, Sequential

-----------------------------------------------------------------------------
(* A request cancelled while it is pending. *)

\* The request is cancelled, and a worker that has it has not looked at the flag
\* yet or has already decided to answer that it is cancelled.
Stopped(r) ==
    /\ r \in canceled
    /\ \A w \in Worker : wreq[w] = r => wpc[w] \in {"popped", "respond"}

\* Every step keeps a stopped request stopped.
LEMMA StoppedStep ==
    ASSUME IInv, NEW r \in Request, Stopped(r), [Next]_vars
    PROVE  Stopped(r)'
<1>0. /\ wpc \in [Worker -> WorkerLabel] /\ wreq \in [Worker -> Request \cup {0}]
      /\ r # 0
  BY DEF IInv, TypeOK, Request
<1>1. CASE Choice \/ MainStep \/ UNCHANGED vars
  <2>1. MainLeaves
    BY <1>1, MainSteps
  <2>2. QED
    BY <2>1 DEF MainLeaves, Stopped
<1>2. ASSUME NEW w \in Worker, WorkerStep(w) \/ SpuriousWakeup(w)
      PROVE  Stopped(r)'
  <2>1. WorkerMove(w)
    BY <1>2, WorkerMoves
  <2>2. canceled' = canceled
    BY <2>1 DEF WorkerMove, Proceed, TakeRequest, Respond, CancelCheck, Transfer,
       PostResponse
  <2>3. \A v \in Worker \ {w} : wreq'[v] = wreq[v] /\ wpc'[v] = wpc[v]
    BY <1>0, <2>1 DEF WorkerMove, Proceed, TakeRequest, Respond, CancelCheck,
       Transfer, PostResponse, Goto
  <2>4. wreq'[w] = r => wpc'[w] \in {"popped", "respond"}
    <3>1. CASE TakeRequest(w) \/ PostResponse(w)
      BY <1>0, <3>1 DEF TakeRequest, PostResponse, Goto
    <3>2. CASE CancelCheck(w, "popped", "getsession")
      BY <1>0, <3>2 DEF CancelCheck, Respond, Proceed, Goto, Stopped
    <3>3. CASE \E from, to \in {"ready", "waiting", "exited"} : Proceed(w, from, to)
      BY <1>0, <3>3 DEF Proceed, Goto, Stopped
    <3>4. CASE wpc[w] \in {"getsession", "session", "prepare", "transfer", "finished"}
               /\ wreq' = wreq
      BY <3>4 DEF Stopped
    <3>5. QED
      BY <2>1, <3>1, <3>2, <3>3, <3>4
      DEF WorkerMove, Proceed, Respond, CancelCheck, Transfer, Goto
  <2>5. QED
    BY <2>2, <2>3, <2>4 DEF Stopped
<1>3. QED
  BY <1>1, <1>2 DEF Next, Terminated

\* A request cancelled while it waits in pending_requests_ never reaches the
\* network.
THEOREM CancelStopsPending == Spec => CancelledBeforeDispatch
<1>1. ASSUME NEW r \in Request
      PROVE  Spec => [](r \in canceled \cap Elements(pending_requests)
                           => [](\A w \in Worker : wreq[w] = r => wpc[w] # "transfer"))
  <2>1. IInv /\ r \in canceled \cap Elements(pending_requests) => Stopped(r)
    BY DEF IInv, InOnePlace, Taken, Stopped, Request
  <2>2. IInv /\ Stopped(r) /\ [Next]_vars => Stopped(r)'
    BY StoppedStep
  <2>3. Stopped(r) => \A w \in Worker : wreq[w] = r => wpc[w] # "transfer"
    BY DEF Stopped
  <2>4. QED
    BY <2>1, <2>2, <2>3, IInvAlways, PTL DEF Spec
<1>2. QED
  BY <1>1 DEF CancelledBeforeDispatch

-----------------------------------------------------------------------------
(* A request cancelled before the worker's last look at the flag. *)

\* The worker has made its last check, and the answer it decided is not the
\* transfer's own.
AnsweredOtherwise(r) ==
    /\ \/ r \in Elements(completed_requests) \cup completed
       \/ \E w \in Worker : wreq[w] = r /\ wpc[w] = "respond"
    /\ code[r] \notin {"OK", "FAILED"}

\* The request is cancelled and its answer is open or is not the transfer's own.
Kept(r) ==
    /\ r \in canceled
    /\ Undecided(r) \/ AnsweredOtherwise(r)

\* A step of a worker changes the place, label and code of its own request only.
LEMMA OtherRequests ==
    ASSUME IInv, NEW r \in Request, Kept(r), NEW w \in Worker, WorkerMove(w),
           wreq[w] # r, ~TakeRequest(w)
    PROVE  Kept(r)'
<1>1. /\ wpc \in [Worker -> WorkerLabel] /\ wreq \in [Worker -> Request \cup {0}]
      /\ code \in [Request -> ErrorCode \cup {"none"}]
      /\ completed_requests \in Seq(Request)
  BY DEF IInv, TypeOK
<1>2. \A v \in Worker \ {w} : wreq'[v] = wreq[v] /\ wpc'[v] = wpc[v]
  BY <1>1 DEF WorkerMove, Proceed, Respond, CancelCheck, Transfer, PostResponse, Goto
<1>3. code'[r] = code[r]
  BY <1>1 DEF WorkerMove, Proceed, Respond, CancelCheck, Transfer, PostResponse, Goto
<1>4. UNCHANGED <<canceled, completed, pending_requests>>
  BY DEF WorkerMove, Proceed, Respond, CancelCheck, Transfer, PostResponse
<1>5. Elements(completed_requests) \subseteq Elements(completed_requests')
  <2>1. CASE PostResponse(w)
    <3>1. wreq[w] \in Request
      BY <2>1, BusyRequest DEF PostResponse, Goto, Busy
    <3>2. QED
      BY <1>1, <2>1, <3>1, AppendElements DEF PostResponse
  <2>2. CASE ~PostResponse(w)
    BY <2>2 DEF WorkerMove, Proceed, Respond, CancelCheck, Transfer
  <2>3. QED
    BY <2>1, <2>2
<1>6. ASSUME NEW v \in Worker, wreq[v] = r
      PROVE  wreq'[v] = r /\ wpc'[v] = wpc[v]
  BY <1>2, <1>6
<1>7. CASE Undecided(r)
  BY <1>4, <1>6, <1>7 DEF Kept, Undecided
<1>8. CASE AnsweredOtherwise(r)
  BY <1>3, <1>4, <1>5, <1>6, <1>8 DEF Kept, AnsweredOtherwise
<1>9. QED
  BY <1>7, <1>8 DEF Kept

\* The worker that has the request keeps the promise at every step.
LEMMA OwnRequest ==
    ASSUME IInv, NEW r \in Request, Kept(r), NEW w \in Worker, WorkerMove(w),
           wreq[w] = r, ~TakeRequest(w)
    PROVE  Kept(r)'
<1>1. /\ wpc \in [Worker -> WorkerLabel] /\ wreq \in [Worker -> Request \cup {0}]
      /\ code \in [Request -> ErrorCode \cup {"none"}]
      /\ completed_requests \in Seq(Request) /\ r # 0 /\ r \in canceled
  BY DEF IInv, TypeOK, Kept, Request
<1>2. canceled' = canceled
  BY DEF WorkerMove, Proceed, Respond, CancelCheck, Transfer, PostResponse
<1>3. CASE PostResponse(w)
  <2>1. wpc[w] = "respond" /\ code' = code
    BY <1>3 DEF PostResponse, Goto
  <2>2. r \in Elements(completed_requests')
    BY <1>1, <1>3, AppendElements DEF PostResponse
  <2>3. ~Undecided(r)
    BY <1>1, <2>1 DEF Undecided, IInv, InOnePlace, Taken
  <2>4. QED
    BY <1>1, <1>2, <2>1, <2>2, <2>3 DEF Kept, AnsweredOtherwise
<1>4. ASSUME NEW from, NEW c \in ErrorCode \ {"OK", "FAILED"}, Respond(w, from, c)
      PROVE  Kept(r)'
  BY <1>1, <1>2, <1>4 DEF Respond, Goto, Kept, AnsweredOtherwise
<1>5. ASSUME NEW from, NEW to, CancelCheck(w, from, to)
      PROVE  Kept(r)'
  <2>1. Respond(w, from, "REQUEST_CANCELLED")
    BY <1>1, <1>5 DEF CancelCheck
  <2>2. QED
    BY <1>4, <2>1 DEF ErrorCode
<1>6. CASE wreq' = wreq /\ wpc'[w] # "respond"
  BY <1>1, <1>2, <1>6 DEF Kept, Undecided
<1>7. CASE \/ \E from, to \in {"ready", "waiting", "exited"} : Proceed(w, from, to)
           \/ Proceed(w, "getsession", "session")
           \/ Transfer(w)
  BY <1>1, <1>6, <1>7 DEF Proceed, Transfer, Goto
<1>8. QED
  BY <1>3, <1>4, <1>5, <1>7 DEF WorkerMove

\* Every step keeps the promise.
LEMMA KeptStep ==
    ASSUME IInv, NEW r \in Request, Kept(r), [Next]_vars
    PROVE  Kept(r)'
<1>1. CASE Choice \/ MainStep \/ UNCHANGED vars
  <2>1. MainLeaves
    BY <1>1, MainSteps
  <2>2. ASSUME NEW w \in Worker, wreq[w] = r
        PROVE  wreq'[w] = r /\ wpc'[w] = wpc[w]
    BY <2>1, <2>2 DEF MainLeaves, IInv, WorkerShape, Busy, Request
  <2>3. CASE Undecided(r)
    BY <2>1, <2>2, <2>3 DEF MainLeaves, Kept, Undecided
  <2>4. CASE AnsweredOtherwise(r)
    BY <2>1, <2>2, <2>4 DEF MainLeaves, Kept, AnsweredOtherwise
  <2>5. QED
    BY <2>3, <2>4 DEF Kept
<1>2. ASSUME NEW w \in Worker, TakeRequest(w)
      PROVE  Kept(r)'
  <2>1. /\ wpc[w] = "ready" /\ wpc' = [wpc EXCEPT ![w] = "popped"]
        /\ pending_requests # <<>> /\ pending_requests' = Tail(pending_requests)
        /\ wreq' = [wreq EXCEPT ![w] = Head(pending_requests)]
        /\ UNCHANGED <<completed_requests, code, canceled, completed>>
    BY <1>2 DEF TakeRequest, Goto
  <2>2. /\ pending_requests \in Seq(Request) /\ Distinct(pending_requests)
        /\ wpc \in [Worker -> WorkerLabel] /\ wreq \in [Worker -> Request \cup {0}]
        /\ r # 0
    BY DEF IInv, TypeOK, InOnePlace, Request
  <2>3. Elements(pending_requests') = Elements(pending_requests) \ {Head(pending_requests)}
    BY <2>1, <2>2, TailElements
  <2>4. wreq[w] = 0
    BY <2>1 DEF IInv, WorkerShape, Busy
  <2>5. ASSUME NEW v \in Worker, wreq[v] = r
        PROVE  wreq'[v] = r /\ wpc'[v] = wpc[v]
    BY <2>1, <2>2, <2>4, <2>5
  <2>6. CASE r = Head(pending_requests)
    BY <2>1, <2>2, <2>6 DEF Kept, Undecided
  <2>7. CASE r \in Elements(pending_requests) /\ r # Head(pending_requests)
    BY <2>1, <2>3, <2>7 DEF Kept, Undecided
  <2>8. CASE \E v \in Worker : wreq[v] = r /\ wpc[v] # "respond"
    BY <2>1, <2>5, <2>8 DEF Kept, Undecided
  <2>9. CASE AnsweredOtherwise(r)
    BY <2>1, <2>5, <2>9 DEF Kept, AnsweredOtherwise
  <2>10. QED
    BY <2>6, <2>7, <2>8, <2>9 DEF Kept, Undecided
<1>3. ASSUME NEW w \in Worker, WorkerStep(w) \/ SpuriousWakeup(w), ~TakeRequest(w)
      PROVE  Kept(r)'
  BY <1>3, WorkerMoves, OwnRequest, OtherRequests
<1>4. QED
  BY <1>1, <1>2, <1>3 DEF Next, Terminated

\* A cancel that arrives before the worker's last check is never lost: the
\* callback does not see the transfer's own result.
THEOREM CancelIsKept == Spec => CancelNotLost
<1>1. ASSUME NEW r \in Request
      PROVE  Spec => [](r \in canceled /\ Undecided(r)
                           => [](r \in completed => code[r] \notin {"OK", "FAILED"}))
  <2>1. r \in canceled /\ Undecided(r) => Kept(r)
    BY DEF Kept
  <2>2. IInv /\ Kept(r) /\ [Next]_vars => Kept(r)'
    BY KeptStep
  <2>3. IInv /\ Kept(r) => (r \in completed => code[r] \notin {"OK", "FAILED"})
    <3>1. IInv /\ r \in completed => ~Undecided(r)
      BY DEF IInv, InOnePlace, Taken, Undecided, Request
    <3>2. QED
      BY <3>1 DEF Kept, AnsweredOtherwise
  <2>4. QED
    BY <2>1, <2>2, <2>3, IInvAlways, PTL DEF Spec
<1>2. QED
  BY <1>1 DEF CancelNotLost
=============================================================================
