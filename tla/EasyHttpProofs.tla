--------------------------- MODULE EasyHttpProofs ---------------------------
(***************************************************************************)
(* EasyHttp loses no request, calls back at most once, and its destructor  *)
(* leaves nothing behind: for every number of workers, requests and tasks  *)
(* per frame.                                                              *)
(*                                                                         *)
(* InOnePlace is not inductive by itself.  What it needs is where the      *)
(* threads are: a worker has a request exactly between TakeRequest and     *)
(* PostResponse (WorkerShape), the destructor's last frames run after all  *)
(* workers left (MainShape), and a worker leaves only an empty queue.      *)
(***************************************************************************)
EXTENDS EasyHttp, TLAPS

Busy == {"popped", "getsession", "session", "prepare", "transfer", "finished",
         "respond"}

\* A worker has a request exactly while it is busy, and left for good only
\* after the stop request, from an empty queue.
WorkerShape ==
    \A w \in Worker :
        /\ wreq[w] # 0 <=> wpc[w] \in Busy
        /\ wpc[w] = "exited" => stop_requested /\ pending_requests = <<>>

\* Where the main thread can be before and after the stop request.
MainShape ==
    /\ mpc = "callback" <=> current # 0 /\ mpc # "notify"
    /\ stop_requested => mpc \in {"notify_all", "join", "pop", "callback", "gone"}
    /\ mpc \in {"notify_all", "join", "gone"} => stop_requested
    /\ stop_requested /\ mpc \in {"pop", "callback", "gone"}
          => \A w \in Worker : wpc[w] = "exited"
    /\ mpc = "gone" => completed_requests = <<>> /\ requests = {}

\* requests_ holds what is not completed, and between frames nothing else.
Tracked ==
    /\ requests \subseteq Sent
    /\ forgotten \subseteq Sent
    /\ Sent \ completed \subseteq requests
    /\ mpc \in {"idle", "destroy", "gone"} \/ (mpc = "notify" /\ current = 0)
          => requests \cap completed = {}

\* The inductive invariant.
IInv ==
    /\ TypeOK
    /\ InOnePlace
    /\ WorkerShape
    /\ MainShape
    /\ Tracked
    /\ CalledOnce

-----------------------------------------------------------------------------
(* Queues as sets. *)

\* Appending a new element.
LEMMA AppendElements ==
    ASSUME NEW S, NEW seq \in Seq(S), NEW x \in S
    PROVE  /\ Append(seq, x) \in Seq(S)
           /\ Elements(Append(seq, x)) = Elements(seq) \cup {x}
           /\ Distinct(seq) /\ x \notin Elements(seq) => Distinct(Append(seq, x))
<1>1. /\ Append(seq, x) \in Seq(S)
      /\ Len(Append(seq, x)) = Len(seq) + 1
      /\ Len(seq) \in Nat
      /\ \A i \in 1 .. Len(seq) : Append(seq, x)[i] = seq[i]
      /\ Append(seq, x)[Len(seq) + 1] = x
  OBVIOUS
<1>2. 1 .. Len(seq) + 1 = (1 .. Len(seq)) \cup {Len(seq) + 1}
  BY <1>1
<1>3. Elements(Append(seq, x)) = Elements(seq) \cup {x}
  BY <1>1, <1>2 DEF Elements
<1>4. ASSUME Distinct(seq), x \notin Elements(seq) PROVE Distinct(Append(seq, x))
  BY <1>1, <1>2, <1>4 DEF Distinct, Elements
<1>5. QED
  BY <1>1, <1>3, <1>4

\* Popping the first element of a queue without duplicates.
LEMMA TailElements ==
    ASSUME NEW S, NEW seq \in Seq(S), seq # <<>>, Distinct(seq)
    PROVE  /\ Head(seq) \in S /\ Head(seq) \in Elements(seq)
           /\ Tail(seq) \in Seq(S)
           /\ Elements(Tail(seq)) = Elements(seq) \ {Head(seq)}
           /\ Distinct(Tail(seq))
<1>1. /\ Len(seq) \in Nat /\ Len(seq) > 0
      /\ Tail(seq) \in Seq(S)
      /\ Len(Tail(seq)) = Len(seq) - 1
      /\ \A i \in 1 .. Len(seq) - 1 : Tail(seq)[i] = seq[i + 1]
      /\ Head(seq) = seq[1]
      /\ seq[1] \in S
  OBVIOUS
<1>2. Head(seq) \in Elements(seq)
  BY <1>1 DEF Elements
<1>3. Distinct(Tail(seq))
  <2> SUFFICES ASSUME NEW i \in 1 .. Len(seq) - 1, NEW j \in 1 .. Len(seq) - 1,
                      seq[i + 1] = seq[j + 1]
               PROVE  i = j
    BY <1>1 DEF Distinct
  <2>1. i + 1 = j + 1
    BY <1>1 DEF Distinct
  <2>2. QED
    BY <2>1
<1>4. Elements(Tail(seq)) \subseteq Elements(seq) \ {Head(seq)}
  <2> SUFFICES ASSUME NEW i \in 1 .. Len(seq) - 1
               PROVE  seq[i + 1] \in Elements(seq) /\ seq[i + 1] # seq[1]
    BY <1>1 DEF Elements
  <2>1. i + 1 \in 1 .. Len(seq) /\ 1 \in 1 .. Len(seq) /\ i + 1 # 1
    BY <1>1
  <2>2. QED
    BY <2>1 DEF Elements, Distinct
<1>5. Elements(seq) \ {Head(seq)} \subseteq Elements(Tail(seq))
  <2> SUFFICES ASSUME NEW k \in 1 .. Len(seq), seq[k] # seq[1]
               PROVE  seq[k] \in Elements(Tail(seq))
    BY <1>1 DEF Elements
  <2>1. k - 1 \in 1 .. Len(seq) - 1 /\ Tail(seq)[k - 1] = seq[k]
    BY <1>1
  <2>2. QED
    BY <1>1, <2>1 DEF Elements
<1>6. QED
  BY <1>1, <1>2, <1>3, <1>4, <1>5

\* An empty queue holds nothing.
LEMMA EmptyElements == Elements(<<>>) = {} /\ Distinct(<<>>)
BY DEF Elements, Distinct

\* Elements of a typed queue.
LEMMA ElementsType ==
    ASSUME NEW S, NEW seq \in Seq(S)
    PROVE  Elements(seq) \subseteq S
BY DEF Elements

-----------------------------------------------------------------------------
(* Steps of the workers. *)

USE DEF engine_vars, control_vars, main_vars, worker_vars

\* A step that moves no request leaves every request in its place.
LEMMA SamePlaces ==
    ASSUME InOnePlace,
           UNCHANGED <<sent, pending_requests, completed_requests, wreq, completed>>
    PROVE  InOnePlace'
<1>1. /\ Elements(pending_requests)' = Elements(pending_requests)
      /\ Elements(completed_requests)' = Elements(completed_requests)
      /\ Distinct(pending_requests)' = Distinct(pending_requests)
      /\ Distinct(completed_requests)' = Distinct(completed_requests)
  OBVIOUS
<1>2. Taken' = Taken /\ Sent' = Sent
  BY DEF Taken, Sent
<1>3. QED
  BY <1>1, <1>2 DEF InOnePlace

\* A worker moves between two labels at which it has a request, or between two
\* at which it has none.
LEMMA GotoStep ==
    ASSUME IInv, NEW w \in Worker,
           NEW from \in WorkerLabel \ {"exited"}, NEW to \in WorkerLabel,
           Goto(w, from, to), from \in Busy <=> to \in Busy,
           to = "exited" => stop_requested /\ pending_requests = <<>>,
           code' \in [Request -> ErrorCode \cup {"none"}],
           UNCHANGED <<pending_requests, completed_requests, wreq, engine_vars>>
    PROVE  IInv'
<1>1. TypeOK'
  BY DEF IInv, TypeOK, Goto
<1>2. InOnePlace'
  BY SamePlaces DEF IInv
<1>3. wpc' = [wpc EXCEPT ![w] = to] /\ wpc[w] = from
  BY DEF Goto
<1>4. \A v \in Worker : wpc'[v] = IF v = w THEN to ELSE wpc[v]
  BY <1>3 DEF IInv, TypeOK
<1>5. WorkerShape'
  BY <1>3, <1>4 DEF IInv, WorkerShape
<1>6. MainShape'
  BY <1>3, <1>4 DEF IInv, MainShape
<1>7. Tracked' /\ CalledOnce'
  BY DEF IInv, Tracked, CalledOnce, Sent, Distinct, Elements
<1>8. QED
  BY <1>1, <1>2, <1>5, <1>6, <1>7 DEF IInv

\* A worker is busy with a request of the right type.
LEMMA BusyRequest ==
    ASSUME IInv, NEW w \in Worker, wpc[w] \in Busy
    PROVE  wreq[w] \in Request
BY DEF IInv, TypeOK, WorkerShape

\* A worker that only changes its label keeps the invariant.
LEMMA ProceedStep ==
    ASSUME IInv, NEW w \in Worker,
           NEW from \in WorkerLabel \ {"exited"}, NEW to \in WorkerLabel,
           from \in Busy <=> to \in Busy,
           to = "exited" => stop_requested /\ pending_requests = <<>>,
           Proceed(w, from, to)
    PROVE  IInv'
BY GotoStep DEF Proceed, IInv, TypeOK

\* A worker that decides the response of its request keeps the invariant.
LEMMA RespondStep ==
    ASSUME IInv, NEW w \in Worker, NEW from \in Busy, NEW c \in ErrorCode,
           Respond(w, from, c)
    PROVE  IInv'
<1>1. wreq[w] \in Request
  BY BusyRequest DEF Respond, Goto
<1>2. code' \in [Request -> ErrorCode \cup {"none"}]
  BY <1>1 DEF Respond, IInv, TypeOK
<1>3. from \in WorkerLabel \ {"exited"}
  BY DEF Busy, WorkerLabel
<1>4. "respond" \in WorkerLabel \cap Busy /\ "respond" # "exited"
  BY DEF Busy, WorkerLabel
<1>5. Goto(w, from, "respond")
  BY DEF Respond
<1>6. UNCHANGED <<pending_requests, completed_requests, wreq, engine_vars>>
  BY DEF Respond
<1>7. QED
  BY <1>2, <1>3, <1>4, <1>5, <1>6, GotoStep

\* A look at the canceled flag, whatever it finds, keeps the invariant.
LEMMA CancelCheckStep ==
    ASSUME IInv, NEW w \in Worker, NEW from \in Busy, NEW to \in Busy,
           CancelCheck(w, from, to)
    PROVE  IInv'
<1>1. /\ from \in WorkerLabel \ {"exited"}
      /\ to \in WorkerLabel \ {"exited"}
      /\ "REQUEST_CANCELLED" \in ErrorCode
  BY DEF Busy, WorkerLabel, ErrorCode
<1>2. CASE wreq[w] \in canceled
  BY <1>1, <1>2, RespondStep DEF CancelCheck
<1>3. CASE wreq[w] \notin canceled
  BY <1>1, <1>3, ProceedStep DEF CancelCheck
<1>4. QED
  BY <1>2, <1>3

\* A worker takes the oldest pending request.
LEMMA TakeRequestStep ==
    ASSUME IInv, NEW w \in Worker, TakeRequest(w)
    PROVE  IInv'
<1> DEFINE r == Head(pending_requests)
<1>1. /\ wpc[w] = "ready" /\ wpc' = [wpc EXCEPT ![w] = "popped"]
      /\ pending_requests # <<>> /\ pending_requests' = Tail(pending_requests)
      /\ wreq' = [wreq EXCEPT ![w] = r]
      /\ UNCHANGED <<completed_requests, code, engine_vars>>
  BY DEF TakeRequest, Goto
<1>2. /\ r \in Request /\ r \in Elements(pending_requests) /\ r # 0
      /\ pending_requests' \in Seq(Request)
      /\ Elements(pending_requests') = Elements(pending_requests) \ {r}
      /\ Distinct(pending_requests')
  <2>1. pending_requests \in Seq(Request) /\ Distinct(pending_requests)
    BY DEF IInv, TypeOK, InOnePlace
  <2>2. 0 \notin Request
    BY DEF Request
  <2>3. QED
    BY <1>1, <2>1, <2>2, TailElements
<1>3. wreq[w] = 0
  BY <1>1 DEF IInv, WorkerShape, Busy
<1>4. /\ \A v \in Worker : wreq'[v] = IF v = w THEN r ELSE wreq[v]
      /\ \A v \in Worker : wpc'[v] = IF v = w THEN "popped" ELSE wpc[v]
  BY <1>1 DEF IInv, TypeOK
<1>5. Taken' = Taken \cup {r}
  BY <1>2, <1>3, <1>4 DEF Taken
<1>6. TypeOK'
  BY <1>1, <1>2 DEF IInv, TypeOK, WorkerLabel
<1>7. InOnePlace'
  <2> HIDE DEF r
  <2>1. \A u, v \in Worker : u # v /\ wreq'[u] # 0 => wreq'[u] # wreq'[v]
    BY <1>2, <1>4 DEF IInv, InOnePlace, Taken
  <2>2. Elements(completed_requests)' = Elements(completed_requests)
    BY <1>1
  <2>3. Distinct(completed_requests)' /\ Sent' = Sent /\ completed' = completed
    BY <1>1 DEF IInv, InOnePlace, Sent
  <2>4. QED
    BY <1>2, <1>5, <2>1, <2>2, <2>3 DEF IInv, InOnePlace
<1>8. WorkerShape'
  BY <1>1, <1>2, <1>4 DEF IInv, WorkerShape, Busy
<1>9. MainShape'
  BY <1>1, <1>4 DEF IInv, MainShape
<1>10. Tracked' /\ CalledOnce'
  BY <1>1 DEF IInv, Tracked, CalledOnce, Sent, Distinct, Elements
<1>11. QED
  BY <1>6, <1>7, <1>8, <1>9, <1>10 DEF IInv

\* A worker posts its response.
LEMMA PostResponseStep ==
    ASSUME IInv, NEW w \in Worker, PostResponse(w)
    PROVE  IInv'
<1> DEFINE r == wreq[w]
<1>1. /\ wpc[w] = "respond" /\ wpc' = [wpc EXCEPT ![w] = "ready"]
      /\ completed_requests' = Append(completed_requests, r)
      /\ wreq' = [wreq EXCEPT ![w] = 0]
      /\ UNCHANGED <<pending_requests, code, engine_vars>>
  BY DEF PostResponse, Goto
<1>2. r \in Request /\ r # 0
  BY <1>1, BusyRequest DEF Busy, Request
<1>3. r \in Taken /\ r \notin Elements(completed_requests)
  BY <1>2 DEF Taken, IInv, InOnePlace
<1>4. /\ completed_requests' \in Seq(Request)
      /\ Elements(completed_requests') = Elements(completed_requests) \cup {r}
      /\ Distinct(completed_requests')
  BY <1>1, <1>2, <1>3, AppendElements DEF IInv, TypeOK, InOnePlace
<1>5. /\ \A v \in Worker : wreq'[v] = IF v = w THEN 0 ELSE wreq[v]
      /\ \A v \in Worker : wpc'[v] = IF v = w THEN "ready" ELSE wpc[v]
  BY <1>1 DEF IInv, TypeOK
<1>6. Taken' = Taken \ {r}
  BY <1>2, <1>5 DEF Taken, IInv, InOnePlace
<1>7. TypeOK'
  BY <1>1, <1>4 DEF IInv, TypeOK, WorkerLabel
<1>8. InOnePlace'
  <2> HIDE DEF r
  <2>1. \A u, v \in Worker : u # v /\ wreq'[u] # 0 => wreq'[u] # wreq'[v]
    BY <1>5 DEF IInv, InOnePlace
  <2>2. /\ Elements(pending_requests)' = Elements(pending_requests)
        /\ Distinct(pending_requests)' /\ Sent' = Sent /\ completed' = completed
    BY <1>1 DEF IInv, InOnePlace, Sent
  <2>3. QED
    BY <1>3, <1>4, <1>6, <2>1, <2>2 DEF IInv, InOnePlace
<1>9. WorkerShape'
  BY <1>1, <1>5 DEF IInv, WorkerShape, Busy
<1>10. MainShape'
  BY <1>1, <1>5 DEF IInv, MainShape
<1>11. Tracked' /\ CalledOnce'
  BY <1>1 DEF IInv, Tracked, CalledOnce, Sent, Distinct, Elements
<1>12. QED
  BY <1>7, <1>8, <1>9, <1>10, <1>11 DEF IInv

-----------------------------------------------------------------------------
(* Steps of the main thread. *)

\* Waking workers changes nothing but that they are ready.
LEMMA WakeStep ==
    ASSUME IInv, NEW ws, wpc' = Wake(ws)
    PROVE  /\ wpc' \in [Worker -> WorkerLabel]
           /\ \A w \in Worker : /\ wpc'[w] \in Busy <=> wpc[w] \in Busy
                                /\ wpc'[w] = "exited" <=> wpc[w] = "exited"
BY DEF IInv, TypeOK, Wake, WorkerLabel, Busy

\* A step of the main thread that neither moves a request nor stops the engine,
\* and between its calls leaves requests_ and the flags alone.
LEMMA QuietMainStep ==
    ASSUME IInv, MainShape',
           tasks' \in 0 .. kMaxTasksExecPerFrame,
           current' \in Request \cup {0},
           mpc' \in MainLabel,
           canceled' \subseteq Request,
           wpc' \in [Worker -> WorkerLabel],
           \A w \in Worker : /\ wpc'[w] \in Busy <=> wpc[w] \in Busy
                             /\ wpc'[w] = "exited" <=> wpc[w] = "exited",
           stop_requested' \in BOOLEAN, stop_requested => stop_requested',
           UNCHANGED <<sent, pending_requests, completed_requests, requests,
                       completed, forgotten, wreq, code, called, abandoned>>,
           mpc' \in {"idle", "destroy", "gone"} \/ (mpc' = "notify" /\ current' = 0)
              => requests \cap completed = {}
    PROVE  IInv'
<1>1. TypeOK'
  BY DEF IInv, TypeOK
<1>2. InOnePlace'
  BY SamePlaces DEF IInv
<1>3. WorkerShape'
  BY DEF IInv, WorkerShape
<1>4. Tracked' /\ CalledOnce'
  BY DEF IInv, Tracked, CalledOnce, Sent, Distinct, Elements
<1>5. QED
  BY <1>1, <1>2, <1>3, <1>4 DEF IInv

\* A new request is pending and tracked, and nowhere else.
LEMMA SendRequestStep ==
    ASSUME IInv, SendRequest
    PROVE  IInv'
<1> DEFINE r == sent + 1
<1>1. /\ r \in Request /\ sent \in Nat /\ sent' = r /\ Sent' = Sent \cup {r}
      /\ r \notin Sent /\ sent' \in 0 .. MaxRequests
  BY BoundAssumption DEF SendRequest, IInv, TypeOK, Request, Sent
<1> HIDE DEF r
<1>2. r \notin Elements(pending_requests) \cup Taken
              \cup Elements(completed_requests) \cup completed
  BY <1>1 DEF IInv, InOnePlace
<1>3. /\ pending_requests' \in Seq(Request)
      /\ Elements(pending_requests') = Elements(pending_requests) \cup {r}
      /\ Distinct(pending_requests')
  <2>1. pending_requests' = Append(pending_requests, r)
    BY DEF SendRequest, r
  <2>2. pending_requests \in Seq(Request) /\ Distinct(pending_requests)
    BY DEF IInv, TypeOK, InOnePlace
  <2>3. QED
    BY <1>1, <1>2, <2>1, <2>2, AppendElements
<1>4. requests' = requests \cup {r}
  BY DEF SendRequest, r
<1>5. TypeOK'
  BY <1>1, <1>3, <1>4 DEF SendRequest, IInv, TypeOK, MainLabel
<1>6. InOnePlace'
  <2>1. /\ Taken' = Taken /\ completed' = completed /\ wreq' = wreq
        /\ Elements(completed_requests)' = Elements(completed_requests)
        /\ Distinct(completed_requests)' = Distinct(completed_requests)
    BY DEF SendRequest, Taken
  <2>2. QED
    BY <1>1, <1>2, <1>3, <2>1 DEF IInv, InOnePlace
<1>7. WorkerShape'
  BY DEF SendRequest, IInv, WorkerShape
<1>8. MainShape'
  BY DEF SendRequest, IInv, MainShape, PluginRuns
<1>9. Tracked'
  BY <1>1, <1>2, <1>4 DEF SendRequest, IInv, Tracked, MainShape, PluginRuns
<1>10. CalledOnce'
  BY DEF SendRequest, IInv, CalledOnce, Distinct, Elements
<1>11. QED
  BY <1>5, <1>6, <1>7, <1>8, <1>9, <1>10 DEF IInv

\* notify_one moves no request.
LEMMA NotifyOneStep ==
    ASSUME IInv, NotifyOne
    PROVE  IInv'
<1>1. \E ws : wpc' = Wake(ws)
  <2>1. CASE \E w \in Worker : wpc[w] = "waiting" /\ wpc' = Wake({w})
    BY <2>1
  <2>2. CASE wpc' = wpc
    <3>1. wpc' = Wake({})
      BY <2>2 DEF Wake, IInv, TypeOK
    <3>2. QED
      BY <3>1
  <2>3. QED
    BY <2>1, <2>2 DEF NotifyOne
<1>2. /\ wpc' \in [Worker -> WorkerLabel]
      /\ \A w \in Worker : /\ wpc'[w] \in Busy <=> wpc[w] \in Busy
                           /\ wpc'[w] = "exited" <=> wpc[w] = "exited"
  BY <1>1, WakeStep
<1>3. MainShape'
  BY <1>2 DEF NotifyOne, IInv, MainShape
<1>4. mpc' \in MainLabel
  BY DEF NotifyOne, MainLabel
<1>5. QED
  BY <1>2, <1>3, <1>4, QuietMainStep DEF NotifyOne, IInv, TypeOK, Tracked

\* ezhttp_cancel_request moves no request.
LEMMA CancelRequestStep ==
    ASSUME IInv, NEW r \in Request, CancelRequest(r)
    PROVE  IInv'
<1>1. MainShape'
  BY DEF CancelRequest, IInv, MainShape
<1>2. QED
  BY <1>1, QuietMainStep DEF CancelRequest, IInv, TypeOK, Tracked

\* CancelAllRequests moves no request; the destructor starts with a swept list.
LEMMA CancelAllRequestsStep ==
    ASSUME IInv, CancelAllRequests
    PROVE  IInv'
<1>1. /\ wpc' \in [Worker -> WorkerLabel]
      /\ \A w \in Worker : /\ wpc'[w] \in Busy <=> wpc[w] \in Busy
                           /\ wpc'[w] = "exited" <=> wpc[w] = "exited"
  BY WakeStep DEF CancelAllRequests
<1>2. MainShape'
  BY DEF CancelAllRequests, IInv, MainShape
<1>3. "destroy" \in MainLabel
  BY DEF MainLabel
<1>4. QED
  BY <1>1, <1>2, <1>3, QuietMainStep
  DEF CancelAllRequests, IInv, TypeOK, Tracked

\* ForgetAllRequests forgets requests that are not completed, so none that was
\* called back.
LEMMA ForgetAllRequestsStep ==
    ASSUME IInv, ForgetAllRequests
    PROVE  IInv'
<1>1. TypeOK'
  BY DEF ForgetAllRequests, IInv, TypeOK
<1>2. InOnePlace'
  BY SamePlaces DEF ForgetAllRequests, IInv
<1>3. WorkerShape' /\ MainShape' /\ Tracked'
  BY DEF ForgetAllRequests, IInv, WorkerShape, MainShape, Tracked, Sent
<1>4. completed' \ forgotten' = completed \ forgotten
  BY DEF ForgetAllRequests, IInv, Tracked
<1>5. CalledOnce'
  BY <1>4 DEF ForgetAllRequests, IInv, CalledOnce, Distinct, Elements
<1>6. QED
  BY <1>1, <1>2, <1>3, <1>5 DEF IInv

\* A frame begins with no callback running.
LEMMA RunFrameStep ==
    ASSUME IInv, RunFrame
    PROVE  IInv'
<1>1. MainShape'
  BY DEF RunFrame, IInv, MainShape
<1>2. "pop" \in MainLabel /\ 0 \in 0 .. kMaxTasksExecPerFrame
  BY BoundAssumption DEF MainLabel
<1>3. QED
  BY <1>1, <1>2, QuietMainStep DEF RunFrame, IInv, TypeOK

\* A result is popped and its request completed; the callback, if it is called,
\* is the first for this request.
LEMMA RunFrameTaskStep ==
    ASSUME IInv, RunFrameTask
    PROVE  IInv'
<1> DEFINE r == Head(completed_requests)
<1>1. /\ mpc = "pop" /\ tasks < kMaxTasksExecPerFrame
      /\ completed_requests # <<>>
      /\ completed_requests' = Tail(completed_requests)
      /\ completed' = completed \cup {r}
      /\ tasks' = tasks + 1
      /\ \/ /\ r \notin forgotten
            /\ mpc' = "callback" /\ current' = r /\ called' = Append(called, r)
         \/ /\ r \in forgotten
            /\ mpc' = mpc /\ current' = current /\ called' = called
      /\ UNCHANGED <<sent, pending_requests, requests, forgotten, canceled,
                     worker_vars, stop_requested, abandoned>>
  BY DEF RunFrameTask, MoreTasks
<1>2. /\ r \in Request /\ r \in Elements(completed_requests) /\ r # 0
      /\ completed_requests' \in Seq(Request)
      /\ Elements(completed_requests') = Elements(completed_requests) \ {r}
      /\ Distinct(completed_requests')
  <2>1. completed_requests \in Seq(Request) /\ Distinct(completed_requests)
    BY DEF IInv, TypeOK, InOnePlace
  <2>2. 0 \notin Request
    BY DEF Request
  <2>3. QED
    BY <1>1, <2>1, <2>2, TailElements
<1> HIDE DEF r
<1>3. r \notin completed /\ r \in Sent
  BY <1>2 DEF IInv, InOnePlace
<1>4. /\ called' \in Seq(Request) /\ Distinct(called')
      /\ Elements(called') = completed' \ forgotten'
  <2>1. called \in Seq(Request) /\ Distinct(called)
        /\ Elements(called) = completed \ forgotten
    BY DEF IInv, TypeOK, CalledOnce
  <2>2. CASE r \notin forgotten
    <3>1. called' = Append(called, r) /\ forgotten' = forgotten
      BY <1>1, <2>2
    <3>2. r \notin Elements(called)
      BY <1>3, <2>1
    <3>3. /\ called' \in Seq(Request) /\ Distinct(called')
          /\ Elements(called') = Elements(called) \cup {r}
      BY <1>2, <2>1, <3>1, <3>2, AppendElements
    <3>4. QED
      BY <1>1, <2>1, <2>2, <3>1, <3>3
  <2>3. CASE r \in forgotten
    BY <1>1, <1>3, <2>1, <2>3
  <2>4. QED
    BY <2>2, <2>3
<1>5. TypeOK'
  <2>1. tasks' \in 0 .. kMaxTasksExecPerFrame
    BY <1>1, BoundAssumption DEF IInv, TypeOK
  <2>2. mpc' \in MainLabel /\ current' \in Request \cup {0}
    BY <1>1, <1>2 DEF IInv, TypeOK, MainLabel
  <2>3. QED
    BY <1>1, <1>2, <1>4, <2>1, <2>2 DEF IInv, TypeOK
<1>6. InOnePlace'
  <2>1. /\ Taken' = Taken /\ wreq' = wreq /\ Sent' = Sent
        /\ Elements(pending_requests)' = Elements(pending_requests)
        /\ Distinct(pending_requests)' = Distinct(pending_requests)
    BY <1>1 DEF Taken, Sent
  <2>2. QED
    BY <1>1, <1>2, <1>3, <2>1 DEF IInv, InOnePlace
<1>7. WorkerShape'
  BY <1>1 DEF IInv, WorkerShape
<1>8. MainShape'
  BY <1>1, <1>2 DEF IInv, MainShape
<1>9. Tracked'
  BY <1>1, <1>3 DEF IInv, Tracked, Sent
<1>10. CalledOnce'
  BY <1>4 DEF CalledOnce
<1>11. QED
  BY <1>5, <1>6, <1>7, <1>8, <1>9, <1>10 DEF IInv

\* A callback returns into the loop of RunFrame.
LEMMA CallbackReturnsStep ==
    ASSUME IInv, CallbackReturns
    PROVE  IInv'
<1>1. MainShape'
  BY DEF CallbackReturns, IInv, MainShape
<1>2. "pop" \in MainLabel
  BY DEF MainLabel
<1>3. QED
  BY <1>1, <1>2, QuietMainStep DEF CallbackReturns, IInv, TypeOK

\* The frame ends: requests_ is what is not completed, and the destructor ends
\* only with nothing in it.
LEMMA RunFrameSweepStep ==
    ASSUME IInv, RunFrameSweep
    PROVE  IInv'
<1>1. /\ mpc = "pop" /\ requests' = requests \ completed /\ tasks' = 0
      /\ stop_requested \in BOOLEAN
      /\ stop_requested => mpc' \in {"gone", "pop"}
      /\ ~stop_requested => mpc' \in {"idle", "destroy"}
      /\ mpc' = "gone" => completed_requests = <<>> /\ requests' = {}
      /\ UNCHANGED <<sent, pending_requests, completed_requests, control_vars,
                     worker_vars, stop_requested, current, called, abandoned>>
  BY DEF RunFrameSweep, IInv, TypeOK
<1>2. TypeOK'
  BY <1>1, BoundAssumption DEF IInv, TypeOK, MainLabel
<1>3. InOnePlace'
  BY <1>1, SamePlaces DEF IInv
<1>4. WorkerShape'
  BY <1>1 DEF IInv, WorkerShape
<1>5. MainShape'
  BY <1>1 DEF IInv, MainShape
<1>6. Tracked'
  BY <1>1 DEF IInv, Tracked, Sent
<1>7. CalledOnce'
  BY <1>1 DEF IInv, CalledOnce, Distinct, Elements
<1>8. QED
  BY <1>2, <1>3, <1>4, <1>5, <1>6, <1>7 DEF IInv

\* The steps of ~EasyHttp before it drains move no request; after the join no
\* worker has one.
LEMMA DestroyStep ==
    ASSUME IInv, Destroy \/ NotifyAll \/ JoinWorkers
    PROVE  IInv'
<1>1. /\ wpc' \in [Worker -> WorkerLabel]
      /\ \A w \in Worker : /\ wpc'[w] \in Busy <=> wpc[w] \in Busy
                           /\ wpc'[w] = "exited" <=> wpc[w] = "exited"
  BY WakeStep DEF Destroy, NotifyAll, JoinWorkers, IInv, TypeOK
<1>2. MainShape'
  BY DEF Destroy, NotifyAll, JoinWorkers, IInv, MainShape
<1>3. /\ mpc' \in MainLabel /\ mpc' \in {"notify_all", "join", "pop"}
      /\ tasks' \in 0 .. kMaxTasksExecPerFrame
  BY BoundAssumption DEF Destroy, NotifyAll, JoinWorkers, IInv, TypeOK, MainLabel
<1>4. QED
  BY <1>1, <1>2, <1>3, QuietMainStep
  DEF Destroy, NotifyAll, JoinWorkers, IInv, TypeOK

-----------------------------------------------------------------------------
(* The theorems. *)

\* Every step of a worker keeps the invariant.
LEMMA WorkerStepKeeps ==
    ASSUME IInv, NEW w \in Worker, WorkerStep(w) \/ SpuriousWakeup(w)
    PROVE  IInv'
<1>1. /\ Busy = {"popped", "getsession", "session", "prepare", "transfer",
                 "finished", "respond"}
      /\ {"ready", "waiting", "exited"} \cap Busy = {}
      /\ Busy \cup {"ready", "waiting", "exited"} \subseteq WorkerLabel
      /\ {"INTERNAL_ERROR", "INVALID_URL_FORMAT", "OK", "FAILED"} \subseteq ErrorCode
  BY DEF Busy, WorkerLabel, ErrorCode
<1>2. CASE WaitForRequest(w) \/ SpuriousWakeup(w) \/ ExitWorker(w)
  BY <1>1, <1>2, ProceedStep DEF WaitForRequest, SpuriousWakeup, ExitWorker
<1>3. CASE TakeRequest(w)
  BY <1>3, TakeRequestStep
<1>4. CASE \/ CheckBeforeDispatch(w) \/ CheckBeforeTransfer(w)
           \/ PrepareTransfer(w) \/ CheckAfterTransfer(w)
  BY <1>1, <1>4, CancelCheckStep
  DEF CheckBeforeDispatch, CheckBeforeTransfer, PrepareTransfer, CheckAfterTransfer
<1>5. CASE GetSession(w)
  BY <1>1, <1>5, RespondStep, ProceedStep DEF GetSession
<1>6. CASE OpenFileFails(w)
  BY <1>1, <1>6, RespondStep DEF OpenFileFails
<1>7. CASE Transfer(w)
  <2>1. wreq[w] \in Request
    BY <1>1, <1>7, BusyRequest DEF Transfer, Goto
  <2>2. code' \in [Request -> ErrorCode \cup {"none"}]
    BY <1>1, <1>7, <2>1 DEF Transfer, IInv, TypeOK
  <2>3. Goto(w, "transfer", "finished")
    BY <1>7 DEF Transfer
  <2>4. UNCHANGED <<pending_requests, completed_requests, wreq, engine_vars>>
    BY <1>7 DEF Transfer
  <2>5. QED
    BY <1>1, <2>2, <2>3, <2>4, GotoStep
<1>8. CASE PostResponse(w)
  BY <1>8, PostResponseStep
<1>9. QED
  BY <1>2, <1>3, <1>4, <1>5, <1>6, <1>7, <1>8 DEF WorkerStep

\* Every step keeps the invariant.
LEMMA IInvStep == IInv /\ [Next]_vars => IInv'
<1> SUFFICES ASSUME IInv, [Next]_vars PROVE IInv'
  OBVIOUS
<1>1. CASE Choice
  BY <1>1, SendRequestStep, CancelRequestStep, CancelAllRequestsStep,
     ForgetAllRequestsStep DEF Choice
<1>2. CASE MainStep
  BY <1>2, NotifyOneStep, RunFrameStep, RunFrameTaskStep, CallbackReturnsStep,
     RunFrameSweepStep, DestroyStep DEF MainStep
<1>3. CASE \E w \in Worker : WorkerStep(w) \/ SpuriousWakeup(w)
  BY <1>3, WorkerStepKeeps
<1>4. CASE UNCHANGED vars
  <2>1. TypeOK' /\ WorkerShape' /\ MainShape'
    BY <1>4 DEF vars, IInv, TypeOK, WorkerShape, MainShape
  <2>2. InOnePlace'
    BY <1>4, SamePlaces DEF vars, IInv
  <2>3. Tracked' /\ CalledOnce'
    BY <1>4 DEF vars, IInv, Tracked, CalledOnce, Sent, Distinct, Elements
  <2>4. QED
    BY <2>1, <2>2, <2>3 DEF IInv
<1>5. QED
  BY <1>1, <1>2, <1>3, <1>4 DEF Next, Terminated

\* A new engine satisfies the invariant.
LEMMA IInvInit == Init => IInv
<1> SUFFICES ASSUME Init PROVE IInv
  OBVIOUS
<1>1. Sent = {} /\ Taken = {}
  BY DEF Init, Sent, Taken
<1>2. TypeOK
  <2>1. <<>> \in Seq(Request)
    OBVIOUS
  <2>2. /\ 0 \in 0 .. MaxRequests /\ 0 \in 0 .. kMaxTasksExecPerFrame
        /\ "ready" \in WorkerLabel /\ "idle" \in MainLabel
    BY BoundAssumption DEF WorkerLabel, MainLabel
  <2>3. code \in [Request -> ErrorCode \cup {"none"}]
    BY DEF Init
  <2>4. wpc \in [Worker -> WorkerLabel] /\ wreq \in [Worker -> Request \cup {0}]
    BY <2>2 DEF Init
  <2>5. QED
    BY <2>1, <2>2, <2>3, <2>4 DEF Init, TypeOK
<1>3. InOnePlace
  BY <1>1, EmptyElements DEF Init, InOnePlace
<1>4. WorkerShape /\ MainShape
  BY DEF Init, WorkerShape, MainShape, Busy
<1>5. Tracked /\ CalledOnce
  BY <1>1, EmptyElements DEF Init, Tracked, CalledOnce
<1>6. QED
  BY <1>2, <1>3, <1>4, <1>5 DEF IInv

\* The invariant holds in every behaviour of the engine.
LEMMA IInvAlways == Spec => []IInv
BY IInvInit, IInvStep, PTL DEF Spec

\* Type correctness of the engine.
THEOREM TypeCorrect == Spec => []TypeOK
BY IInvAlways, PTL DEF IInv

\* No request is lost or duplicated between SendRequest, the workers and
\* RunFrame.
THEOREM NoRequestLost == Spec => []InOnePlace
BY IInvAlways, PTL DEF IInv

\* GetActiveRequestCount never misses an active request.
THEOREM ActiveCountSound == Spec => []ActiveTracked
<1>1. IInv => ActiveTracked
  BY DEF IInv, Tracked, ActiveTracked
<1>2. QED
  BY <1>1, IInvAlways, PTL

\* One callback per request, and none for a forgotten one.
THEOREM OneCallback == Spec => []CalledOnce
BY IInvAlways, PTL DEF IInv

\* When ~EasyHttp has returned, every request it accepted is completed.
THEOREM DestructorDrains == Spec => []DestroyedClean
<1>1. IInv => DestroyedClean
  <2> SUFFICES ASSUME IInv, mpc = "gone" PROVE
        /\ completed = Sent
        /\ \A w \in Worker : wpc[w] = "exited"
        /\ pending_requests = <<>> /\ completed_requests = <<>>
    BY DEF DestroyedClean
  <2>1. completed_requests = <<>> /\ requests = {}
    BY DEF IInv, MainShape
  <2>2. \A w \in Worker : wpc[w] = "exited"
    BY DEF IInv, MainShape
  <2>3. pending_requests = <<>>
    BY <2>2, WorkerAssumption DEF IInv, WorkerShape
  <2>4. completed = Sent
    BY <2>1 DEF IInv, Tracked, InOnePlace
  <2>5. QED
    BY <2>1, <2>2, <2>3, <2>4
<1>2. QED
  BY <1>1, IInvAlways, PTL

-----------------------------------------------------------------------------
(* The engine implements RequestLifecycle. *)

\* The mapped status, read off the flags alone.
flag_status ==
    [r \in Request |->
        CASE r \notin Sent                            -> "unsent"
          [] r \in completed /\ r \notin forgotten    -> "called"
          [] r \in completed /\ r \in forgotten       -> "dropped"
          [] r \in Sent \ completed /\ r \in forgotten    -> "forgotten"
          [] r \in Sent \ completed /\ r \notin forgotten -> "active"]

\* The log of callbacks and the flags tell the same story.
LEMMA StatusByFlags == IInv => lifecycle_status = flag_status
<1> SUFFICES ASSUME IInv PROVE lifecycle_status = flag_status
  OBVIOUS
<1>1. \A r \in completed : r \in Elements(called) <=> r \notin forgotten
  BY DEF IInv, CalledOnce
<1>2. QED
  BY <1>1 DEF lifecycle_status, flag_status

\* The same in the next state.
LEMMA StatusByFlagsNext == IInv' => lifecycle_status' = flag_status'
<1> SUFFICES ASSUME IInv' PROVE lifecycle_status' = flag_status'
  OBVIOUS
<1>1. \A r \in completed' : r \in Elements(called)' <=> r \notin forgotten'
  BY DEF IInv, CalledOnce
<1>2. QED
  BY <1>1 DEF lifecycle_status, flag_status

\* The mapped status, by where the request is.
LEMMA StatusCases ==
    ASSUME IInv, NEW r \in Request
    PROVE  /\ r \notin Sent => lifecycle_status[r] = "unsent"
           /\ r \in completed \ forgotten => lifecycle_status[r] = "called"
           /\ r \in completed \cap forgotten => lifecycle_status[r] = "dropped"
           /\ r \in (Sent \ completed) \cap forgotten
                 => lifecycle_status[r] = "forgotten"
           /\ r \in (Sent \ completed) \ forgotten
                 => lifecycle_status[r] = "active"
<1>1. completed \subseteq Sent
  BY DEF IInv, InOnePlace
<1>2. flag_status[r] =
        CASE r \notin Sent                            -> "unsent"
          [] r \in completed /\ r \notin forgotten    -> "called"
          [] r \in completed /\ r \in forgotten       -> "dropped"
          [] r \in Sent \ completed /\ r \in forgotten    -> "forgotten"
          [] r \in Sent \ completed /\ r \notin forgotten -> "active"
  BY DEF flag_status
<1>3. QED
  BY <1>1, <1>2, StatusByFlags

\* A step that changes neither the set of requests sent nor these flags is a
\* stuttering step of the abstract engine, unless the destructor returns in it.
LEMMA LifecycleStutter ==
    ASSUME IInv, IInv', UNCHANGED <<sent, completed, forgotten, abandoned>>,
           mpc' = "gone" <=> mpc = "gone"
    PROVE  UNCHANGED <<lifecycle_status, lifecycle_engine>>
<1>1. flag_status' = flag_status
  BY DEF flag_status, Sent
<1>2. lifecycle_engine' = lifecycle_engine
  BY DEF lifecycle_engine
<1>3. QED
  BY <1>1, <1>2, StatusByFlags, StatusByFlagsNext

\* SendRequest implements Send.
LEMMA LifecycleSend ==
    ASSUME IInv, IInv', SendRequest
    PROVE  Lifecycle!Next
<1>0. lifecycle_status = flag_status /\ lifecycle_status' = flag_status'
  BY StatusByFlags, StatusByFlagsNext
<1> DEFINE r == sent + 1
<1>1. /\ r \in Request /\ r \notin Sent /\ Sent' = Sent \cup {r}
      /\ completed' = completed /\ forgotten' = forgotten
  BY BoundAssumption DEF SendRequest, IInv, TypeOK, Request, Sent
<1> HIDE DEF r
<1>2. r \notin completed /\ r \notin forgotten /\ completed \subseteq Sent
  BY <1>1 DEF IInv, InOnePlace, Tracked
<1>3. lifecycle_status[r] = "unsent" /\ lifecycle_status'[r] = "active"
  <2>1. lifecycle_status'[r] = "active"
    BY <1>0, <1>1, <1>2 DEF flag_status
  <2>2. QED
    BY <1>1, <2>1, StatusCases
<1>4. \A q \in Request \ {r} : lifecycle_status'[q] = lifecycle_status[q]
  BY <1>0, <1>1 DEF flag_status
<1>5. lifecycle_status' = [lifecycle_status EXCEPT ![r] = "active"]
  BY <1>0, <1>1, <1>3, <1>4 DEF flag_status
<1>6. lifecycle_engine = "open" /\ lifecycle_engine' = lifecycle_engine
  BY DEF SendRequest, PluginRuns, lifecycle_engine
<1>7. QED
  BY <1>1, <1>3, <1>5, <1>6 DEF Lifecycle!Next, Lifecycle!Send

\* A result popped by RunFrame implements Call, or Drop when it was forgotten.
LEMMA LifecycleTask ==
    ASSUME IInv, IInv', RunFrameTask
    PROVE  Lifecycle!Next
<1>0. lifecycle_status = flag_status /\ lifecycle_status' = flag_status'
  BY StatusByFlags, StatusByFlagsNext
<1> DEFINE r == Head(completed_requests)
<1>1. /\ completed' = completed \cup {r}
      /\ UNCHANGED <<sent, forgotten, abandoned>>
      /\ mpc = "pop" /\ mpc' \in {"pop", "callback"}
      /\ completed_requests # <<>>
  BY DEF RunFrameTask, MoreTasks
<1>2. r \in Request /\ r \in Elements(completed_requests)
  <2>1. completed_requests \in Seq(Request) /\ Distinct(completed_requests)
    BY DEF IInv, TypeOK, InOnePlace
  <2>2. QED
    BY <1>1, <2>1, TailElements
<1> HIDE DEF r
<1>3. r \in Sent \ completed /\ Sent' = Sent
  BY <1>1, <1>2 DEF IInv, InOnePlace, Sent
<1>4. \A q \in Request \ {r} : lifecycle_status'[q] = lifecycle_status[q]
  BY <1>0, <1>1, <1>3 DEF flag_status
<1>5. lifecycle_engine' = lifecycle_engine
  BY <1>1 DEF lifecycle_engine
<1>6. CASE r \notin forgotten
  <2>1. lifecycle_status[r] = "active"
    BY <1>2, <1>3, <1>6, StatusCases
  <2>2. lifecycle_status'[r] = "called"
    BY <1>0, <1>1, <1>2, <1>3, <1>6 DEF flag_status
  <2>3. lifecycle_status' = [lifecycle_status EXCEPT ![r] = "called"]
    BY <1>0, <1>2, <1>4, <2>2 DEF flag_status
  <2>4. QED
    BY <1>2, <1>5, <2>1, <2>3 DEF Lifecycle!Next, Lifecycle!Call
<1>7. CASE r \in forgotten
  <2>1. lifecycle_status[r] = "forgotten"
    BY <1>2, <1>3, <1>7, StatusCases
  <2>2. lifecycle_status'[r] = "dropped"
    BY <1>0, <1>1, <1>2, <1>3, <1>7 DEF flag_status
  <2>3. lifecycle_status' = [lifecycle_status EXCEPT ![r] = "dropped"]
    BY <1>0, <1>2, <1>4, <2>2 DEF flag_status
  <2>4. QED
    BY <1>2, <1>5, <2>1, <2>3 DEF Lifecycle!Next, Lifecycle!Drop
<1>8. QED
  BY <1>6, <1>7

\* ForgetAllRequests implements ForgetAll.
LEMMA LifecycleForget ==
    ASSUME IInv, IInv', ForgetAllRequests
    PROVE  Lifecycle!Next
<1>0. lifecycle_status = flag_status /\ lifecycle_status' = flag_status'
  BY StatusByFlags, StatusByFlagsNext
<1>1. /\ Sent' = Sent /\ completed' = completed
      /\ forgotten' = forgotten \cup requests
      /\ mpc = "idle" /\ mpc' = "idle" /\ ~abandoned /\ abandoned'
  BY DEF ForgetAllRequests, Sent
<1>2. requests = Sent \ completed
  BY <1>1 DEF IInv, Tracked
<1>3. lifecycle_engine = "open" /\ lifecycle_engine' = "abandoned"
  BY <1>1 DEF lifecycle_engine
<1>4. ASSUME NEW q \in Request
      PROVE  lifecycle_status'[q] = IF lifecycle_status[q] = "active"
                                    THEN "forgotten" ELSE lifecycle_status[q]
  <2>1. CASE q \in Sent \ completed
    <3>1. lifecycle_status'[q] = "forgotten"
      BY <1>0, <1>1, <1>2, <2>1 DEF flag_status
    <3>2. lifecycle_status[q] \in {"active", "forgotten"}
      BY <2>1, StatusCases
    <3>3. QED
      BY <3>1, <3>2
  <2>2. CASE q \notin Sent \ completed
    <3>1. lifecycle_status'[q] = lifecycle_status[q]
      BY <1>0, <1>1, <1>2, <2>2 DEF flag_status
    <3>2. lifecycle_status[q] # "active"
      <4>1. q \notin Sent \/ q \in completed \ forgotten \/ q \in completed \cap forgotten
        BY <2>2
      <4>2. QED
        BY <4>1, StatusCases
    <3>3. QED
      BY <3>1, <3>2
  <2>3. QED
    BY <2>1, <2>2
<1>5. lifecycle_status' = [q \in Request |-> IF lifecycle_status[q] = "active"
                                             THEN "forgotten"
                                             ELSE lifecycle_status[q]]
  BY <1>0, <1>4 DEF flag_status
<1>6. QED
  BY <1>3, <1>5 DEF Lifecycle!Next, Lifecycle!ForgetAll

\* The destructor returns: nothing is active or forgotten any more.
LEMMA LifecycleDestroy ==
    ASSUME IInv, IInv', RunFrameSweep, mpc' = "gone"
    PROVE  Lifecycle!Next
<1>0. lifecycle_status = flag_status /\ lifecycle_status' = flag_status'
  BY StatusByFlags, StatusByFlagsNext
<1>1. UNCHANGED <<sent, completed, forgotten, abandoned>> /\ mpc = "pop"
  BY DEF RunFrameSweep
<1>2. completed = Sent
  BY <1>1 DEF IInv, MainShape, Tracked, InOnePlace, Sent
<1>3. \A q \in Request : lifecycle_status[q] \notin {"active", "forgotten"}
  <2> SUFFICES ASSUME NEW q \in Request
               PROVE  lifecycle_status[q] \notin {"active", "forgotten"}
    OBVIOUS
  <2>1. q \notin Sent \/ q \in completed \ forgotten \/ q \in completed \cap forgotten
    BY <1>2
  <2>2. QED
    BY <2>1, StatusCases
<1>4. lifecycle_engine # "gone" /\ lifecycle_engine' = "gone"
  BY <1>1 DEF lifecycle_engine
<1>5. lifecycle_status' = lifecycle_status
  BY <1>0, <1>1 DEF flag_status, Sent
<1>6. QED
  BY <1>3, <1>4, <1>5 DEF Lifecycle!Next, Lifecycle!Destroy

\* A new engine maps to an open one with nothing sent.
LEMMA LifecycleInit == Init => Lifecycle!Init
<1> SUFFICES ASSUME Init PROVE Lifecycle!Init
  OBVIOUS
<1>1. Sent = {}
  BY DEF Init, Sent
<1>2. lifecycle_status = [r \in Request |-> "unsent"]
  <2>1. \A r \in Request : lifecycle_status[r] = "unsent"
    BY <1>1, IInvInit, StatusCases
  <2>2. QED
    BY <2>1, IInvInit, StatusByFlags DEF flag_status
<1>3. lifecycle_engine = "open"
  BY DEF Init, lifecycle_engine
<1>4. QED
  BY <1>2, <1>3 DEF Lifecycle!Init

\* Every step of the engine is a step of the lifecycle or leaves it unchanged.
LEMMA LifecycleStep ==
    IInv /\ IInv' /\ [Next]_vars => [Lifecycle!Next]_(Lifecycle!vars)
<1> SUFFICES ASSUME IInv, IInv', [Next]_vars
             PROVE  Lifecycle!Next \/ UNCHANGED <<lifecycle_status, lifecycle_engine>>
  BY DEF Lifecycle!vars
<1>1. CASE SendRequest
  BY <1>1, LifecycleSend
<1>2. CASE RunFrameTask
  BY <1>2, LifecycleTask
<1>3. CASE ForgetAllRequests
  BY <1>3, LifecycleForget
<1>4. CASE RunFrameSweep /\ mpc' = "gone"
  BY <1>4, LifecycleDestroy
<1>5. CASE \/ (\E r \in Request : CancelRequest(r)) \/ CancelAllRequests
           \/ NotifyOne \/ RunFrame \/ CallbackReturns
           \/ (RunFrameSweep /\ mpc' # "gone")
           \/ Destroy \/ NotifyAll \/ JoinWorkers
  <2>1. /\ UNCHANGED <<sent, completed, forgotten, abandoned>>
        /\ mpc' = "gone" <=> mpc = "gone"
    BY <1>5 DEF CancelRequest, CancelAllRequests, NotifyOne, RunFrame,
       CallbackReturns, RunFrameSweep, Destroy, NotifyAll, JoinWorkers, PluginRuns
  <2>2. QED
    BY <2>1, LifecycleStutter
<1>6. CASE \E w \in Worker : WorkerStep(w) \/ SpuriousWakeup(w)
  <2>1. UNCHANGED <<sent, completed, forgotten, abandoned, mpc>>
    BY <1>6 DEF WorkerStep, SpuriousWakeup, WaitForRequest, ExitWorker, TakeRequest,
       CheckBeforeDispatch, GetSession, CheckBeforeTransfer, OpenFileFails,
       PrepareTransfer, Transfer, CheckAfterTransfer, PostResponse, CancelCheck,
       Respond, Proceed
  <2>2. QED
    BY <2>1, LifecycleStutter
<1>7. CASE UNCHANGED vars
  BY <1>7, LifecycleStutter DEF vars
<1>8. QED
  BY <1>1, <1>2, <1>3, <1>4, <1>5, <1>6, <1>7 DEF Next, Choice, MainStep, Terminated

\* The engine with its threads, queues and flags implements the abstract
\* lifecycle: every sent request is called back once, or dropped after a forget,
\* before the destructor returns.
THEOREM EngineImplementsLifecycle == Spec => ImplementsLifecycle
<1>1. Spec => Lifecycle!Init /\ [][Lifecycle!Next]_(Lifecycle!vars)
  BY LifecycleInit, LifecycleStep, IInvAlways, PTL DEF Spec
<1>2. QED
  BY <1>1 DEF ImplementsLifecycle, Lifecycle!Spec
=============================================================================
