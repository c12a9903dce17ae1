-------------------------- MODULE CprSessionCache --------------------------
(***************************************************************************)
(* ezhttp::CprSessionCache as the worker threads of one EasyHttp use it.   *)
(* A worker takes a session for the host of its request, transfers, and    *)
(* gives the curl handle back (EasyHttp.cpp:281-313).  Each operation runs *)
(* under mutex_, so each is one action; the workers interleave between     *)
(* them.  A host with no entry in cache_ and a host whose vector is empty  *)
(* behave alike and are the empty sequence here.                           *)
(*                                                                         *)
(* Time is DateTimeService::GetNow(), the system clock: it advances and,   *)
(* when the machine's time is corrected, it steps back.                    *)
(***************************************************************************)
EXTENDS Integers, Sequences, FiniteSets

CONSTANTS
    Worker,             \* worker threads
    Host,               \* hosts that absolute URLs name
    NoHost,             \* the empty string GetHostByUrl returns on failure
    Relative,           \* a URL without a scheme and host
    Malformed,          \* a URL that curl cannot parse
    CurlHandle,         \* addresses of curl handles
    None,               \* no curl handle
    Limits,             \* values of the constructor's max_sessions_per_host
    MaxAge,             \* maxage_conn_
    MaxTime,            \* bound: the clock's range is 0 .. MaxTime
    MaxStepsBack        \* bound: how often the clock is stepped back

ASSUME NoHostAssumption == {NoHost, Relative, Malformed} \cap Host = {}
ASSUME UrlAssumption == Relative # Malformed
ASSUME NoneAssumption == None \notin CurlHandle
ASSUME BoundsAssumption ==
    /\ Limits \subseteq Nat
    /\ MaxAge \in Nat
    /\ MaxTime \in Nat
    /\ MaxStepsBack \in Nat

Url == Host \cup {Relative, Malformed}

VARIABLES
    cache,      \* cache_: per host, the idle curl handles, newest last
    now,        \* what GetNow() returns
    holds,      \* per worker, the curl handle of its session, or None
    url_of,     \* per worker, the URL its session was created for
    curl_url,   \* per worker, the host in the thread-local UrlUtils::curl_url_
    steps_back, \* number of times the clock was stepped back
    max_sessions_per_host  \* max_sessions_per_host_

vars == <<cache, now, holds, url_of, curl_url, steps_back, max_sessions_per_host>>

CacheItem == [curl_holder : CurlHandle, last_use : 0 .. MaxTime]

-----------------------------------------------------------------------------

\* UrlUtils::GetHostByUrl on worker w's thread.  curl_url_set parses the URL
\* into a handle that keeps the thread's previous URL, and curl resolves a
\* relative URL against that one.
GetHostByUrl(w, u) == CASE u \in Host     -> u
                        [] u = Relative  -> curl_url[w]
                        [] u = Malformed -> NoHost

IsSessionCacheExpired(item, time) == item.last_use + MaxAge <= time

\* The result of std::lower_bound over the items, as the number of items
\* before it.  The binary search ends between an expired item and one that is
\* not; on a vector that is not partitioned it may end at any such place.
LowerBounds(items, time) ==
    {k \in 0 .. Len(items) :
        /\ k > 0 => IsSessionCacheExpired(items[k], time)
        /\ k < Len(items) => ~IsSessionCacheExpired(items[k + 1], time)}

\* The vector with its first n items erased.
EraseFirst(items, n) == SubSeq(items, n + 1, Len(items))

\* Mutant of FreeSpaceForSession: the vector is trimmed once it is over the limit.
FreeSpaceOffByOne(items, time) ==
    IF Len(items) <= max_sessions_per_host
    THEN {items}
    ELSE {EraseFirst(items, Len(items) - max_sessions_per_host + 1)}

\* Mutant of FreeSpaceForSession: all items go when none has expired.
FreeSpaceClears(items, time) ==
    IF Len(items) < max_sessions_per_host
    THEN {items}
    ELSE {EraseFirst(items, IF k # 0 THEN k ELSE Len(items))
             : k \in LowerBounds(items, time)}

\* FreeSpaceForSession: the vectors it may leave.
FreeSpaceForSession(items, time) ==
    IF Len(items) < max_sessions_per_host
    THEN {items}
    ELSE {EraseFirst(items, IF k # 0 THEN k
                            ELSE (Len(items) - max_sessions_per_host) + 1)
             : k \in LowerBounds(items, time)}

-----------------------------------------------------------------------------

Init ==
    /\ cache = [h \in Host |-> <<>>]
    /\ now = 0
    /\ holds = [w \in Worker |-> None]
    /\ url_of = [w \in Worker |-> Malformed]
    /\ curl_url = [w \in Worker |-> NoHost]
    /\ steps_back = 0
    /\ max_sessions_per_host \in Limits

Cached(h) == {cache[h][i].curl_holder : i \in 1 .. Len(cache[h])}
Live == {holds[w] : w \in Worker} \cup UNION {Cached(h) : h \in Host}

\* The worker's session now runs on curl handle c.
Take(w, u, c) ==
    /\ holds' = [holds EXCEPT ![w] = c]
    /\ url_of' = [url_of EXCEPT ![w] = u]

\* CreateSession(url) without a holder: cpr makes a new curl handle, one that
\* nothing else uses.
CreateSession(w, u) == \E c \in CurlHandle \ Live : Take(w, u, c)

\* The thread-local URL after GetHostByUrl returned h: a failure keeps it.
Parsed(w, h) ==
    curl_url' = IF h = NoHost THEN curl_url ELSE [curl_url EXCEPT ![w] = h]

\* GetSession with a limit of zero: the host is not looked at.
GetUncachedSession(w, u) ==
    /\ holds[w] = None
    /\ max_sessions_per_host = 0
    /\ CreateSession(w, u)
    /\ UNCHANGED <<cache, now, curl_url, steps_back, max_sessions_per_host>>

\* The newest item of host h may be reused.
Reusable(h) ==
    /\ cache[h] # <<>>
    /\ ~IsSessionCacheExpired(cache[h][Len(cache[h])], now)

\* Mutant of GetNewSession: a URL without a host gets a session too.
GetNewSessionNoHost(w, u) ==
    LET h == GetHostByUrl(w, u) IN
    /\ holds[w] = None
    /\ max_sessions_per_host # 0
    /\ h = NoHost \/ ~Reusable(h)
    /\ CreateSession(w, u)
    /\ cache' = [g \in Host |-> IF g = h THEN <<>> ELSE cache[g]]
    /\ Parsed(w, h)
    /\ UNCHANGED <<now, steps_back, max_sessions_per_host>>

\* GetSession when nothing can be reused; an expired newest item empties the
\* vector.  (A URL without a host yields no session and changes nothing.)
GetNewSession(w, u) ==
    LET h == GetHostByUrl(w, u) IN
    /\ holds[w] = None
    /\ max_sessions_per_host # 0
    /\ h # NoHost
    /\ ~Reusable(h)
    /\ CreateSession(w, u)
    /\ cache' = [cache EXCEPT ![h] = <<>>]
    /\ Parsed(w, h)
    /\ UNCHANGED <<now, steps_back, max_sessions_per_host>>

\* Mutants of GetCachedSession: the item stays in the vector; the oldest item
\* is taken where the newest was checked.
GetCachedSessionNoPop(w, u) ==
    LET h == GetHostByUrl(w, u) IN
    /\ holds[w] = None
    /\ max_sessions_per_host # 0
    /\ h # NoHost
    /\ Reusable(h)
    /\ Take(w, u, cache[h][Len(cache[h])].curl_holder)
    /\ Parsed(w, h)
    /\ UNCHANGED <<cache, now, steps_back, max_sessions_per_host>>

GetCachedSessionOldest(w, u) ==
    LET h == GetHostByUrl(w, u) IN
    /\ holds[w] = None
    /\ max_sessions_per_host # 0
    /\ h # NoHost
    /\ Reusable(h)
    /\ Take(w, u, cache[h][1].curl_holder)
    /\ cache' = [cache EXCEPT ![h] = Tail(@)]
    /\ Parsed(w, h)
    /\ UNCHANGED <<now, steps_back, max_sessions_per_host>>

\* GetSession when the newest item is still fresh: it leaves the cache.
GetCachedSession(w, u) ==
    LET h == GetHostByUrl(w, u) IN
    /\ holds[w] = None
    /\ max_sessions_per_host # 0
    /\ h # NoHost
    /\ Reusable(h)
    /\ Take(w, u, cache[h][Len(cache[h])].curl_holder)
    /\ cache' = [cache EXCEPT ![h] = SubSeq(@, 1, Len(@) - 1)]
    /\ Parsed(w, h)
    /\ UNCHANGED <<now, steps_back, max_sessions_per_host>>

\* Mutants of ReturnSession: the time of expiry is stored; the handle goes to
\* the front of the vector.
ReturnSessionExpiry(w) ==
    LET h == GetHostByUrl(w, url_of[w]) IN
    /\ holds[w] # None
    /\ max_sessions_per_host # 0
    /\ h # NoHost
    /\ \E items \in FreeSpaceForSession(cache[h], now) :
          cache' = [cache EXCEPT ![h] =
              Append(items, [curl_holder |-> holds[w], last_use |-> now + MaxAge])]
    /\ Take(w, Malformed, None)
    /\ Parsed(w, h)
    /\ UNCHANGED <<now, steps_back, max_sessions_per_host>>

ReturnSessionFront(w) ==
    LET h == GetHostByUrl(w, url_of[w]) IN
    /\ holds[w] # None
    /\ max_sessions_per_host # 0
    /\ h # NoHost
    /\ \E items \in FreeSpaceForSession(cache[h], now) :
          cache' = [cache EXCEPT ![h] =
              <<[curl_holder |-> holds[w], last_use |-> now]>> \o items]
    /\ Take(w, Malformed, None)
    /\ Parsed(w, h)
    /\ UNCHANGED <<now, steps_back, max_sessions_per_host>>

\* ReturnSession: make room, then append the handle with the current time.
ReturnSession(w) ==
    LET h == GetHostByUrl(w, url_of[w]) IN
    /\ holds[w] # None
    /\ max_sessions_per_host # 0
    /\ h # NoHost
    /\ \E items \in FreeSpaceForSession(cache[h], now) :
          cache' = [cache EXCEPT ![h] =
              Append(items, [curl_holder |-> holds[w], last_use |-> now])]
    /\ Take(w, Malformed, None)
    /\ Parsed(w, h)
    /\ UNCHANGED <<now, steps_back, max_sessions_per_host>>

\* ReturnSession with a limit of zero, or without a host: the handle is not
\* kept, and destroyed with the session.
DropSession(w) ==
    /\ holds[w] # None
    /\ max_sessions_per_host = 0 \/ GetHostByUrl(w, url_of[w]) = NoHost
    /\ Take(w, Malformed, None)
    /\ UNCHANGED <<cache, now, curl_url, steps_back, max_sessions_per_host>>

\* Time passes.
Tick ==
    /\ now < MaxTime
    /\ now' = now + 1
    /\ UNCHANGED <<cache, holds, url_of, curl_url, steps_back, max_sessions_per_host>>

\* The system clock is corrected backwards.
StepBack ==
    /\ steps_back < MaxStepsBack
    /\ \E t \in 0 .. MaxTime : t < now /\ now' = t
    /\ steps_back' = steps_back + 1
    /\ UNCHANGED <<cache, holds, url_of, curl_url, max_sessions_per_host>>

Next ==
    \/ \E w \in Worker, u \in Url :
          GetUncachedSession(w, u) \/ GetNewSession(w, u) \/ GetCachedSession(w, u)
    \/ \E w \in Worker : ReturnSession(w) \/ DropSession(w)
    \/ Tick
    \/ StepBack

Spec == Init /\ [][Next]_vars

-----------------------------------------------------------------------------
(* Correctness *)

\* Types of the cache and of what the workers hold.
TypeOK ==
    /\ cache \in [Host -> Seq(CacheItem)]
    /\ now \in 0 .. MaxTime
    /\ holds \in [Worker -> CurlHandle \cup {None}]
    /\ url_of \in [Worker -> Url]
    /\ curl_url \in [Worker -> Host \cup {NoHost}]
    /\ steps_back \in 0 .. MaxStepsBack
    /\ max_sessions_per_host \in Limits

\* A curl handle is in one place: two transfers never run on the same handle,
\* a handle in use is not in the cache, and no handle is cached twice.  (libcurl
\* handles must not be shared by threads; the cache hands them across threads.)
Exclusive ==
    /\ \A v, w \in Worker : v # w /\ holds[v] # None => holds[v] # holds[w]
    /\ \A w \in Worker, h \in Host : holds[w] \notin Cached(h)
    /\ \A g, h \in Host : \A i \in 1 .. Len(cache[g]), j \in 1 .. Len(cache[h]) :
          cache[g][i].curl_holder = cache[h][j].curl_holder => g = h /\ i = j

\* No host ever has more idle handles than max_sessions_per_host_, whatever the
\* clock does between the returns.
WithinLimit == \A h \in Host : Len(cache[h]) <= max_sessions_per_host

\* CprSessionCache.cpp:41: "The newest session is stored at the end of the
\* vector, if it is expired, all previous sessions are also expired".
\* GetSession clears the vector and FreeSpaceForSession searches it on the
\* strength of this.  It takes a clock that was never stepped back.
NewestLast ==
    steps_back = 0 =>
        \A h \in Host : \A i \in 1 .. Len(cache[h]) :
            IsSessionCacheExpired(cache[h][Len(cache[h])], now)
                => IsSessionCacheExpired(cache[h][i], now)

\* A handle that a worker gets from the cache was idle for less than
\* maxage_conn_ (GetSession only ever looks at the newest item).
FreshHandout ==
    [][\A w \in Worker, h \in Host : \A i \in 1 .. Len(cache[h]) :
          holds[w] = None /\ holds'[w] = cache[h][i].curl_holder
              => ~IsSessionCacheExpired(cache[h][i], now)]_vars

\* While a worker holds a session its URL still resolves to a host: what
\* GetSession accepted, ReturnSession files under a host too, although the
\* thread-local parser is used for both calls.  No handle is ever dropped on
\* return when the cache is on.
ReturnFindsHost ==
    \A w \in Worker : holds[w] # None /\ max_sessions_per_host # 0
                           => GetHostByUrl(w, url_of[w]) # NoHost

\* Making room costs little: while the clock is not stepped back, a return drops
\* at most one handle that has not expired, and none when it could drop an
\* expired one instead (FreeSpaceForSession).
FreshSurvive ==
    [][steps_back' = 0 =>
       \A h \in Host :
          LET Fresh   == {i \in 1 .. Len(cache[h]) :
                              ~IsSessionCacheExpired(cache[h][i], now)}
              Dropped == {i \in Fresh :
                              cache[h][i].curl_holder \notin
                                  Cached(h)' \cup {holds'[w] : w \in Worker}}
          IN  Cardinality(Dropped) <= IF Cardinality(Fresh) = Len(cache[h])
                                      THEN 1 ELSE 0]_vars
=============================================================================
