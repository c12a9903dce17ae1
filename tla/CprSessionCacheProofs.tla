------------------------ MODULE CprSessionCacheProofs ------------------------
(***************************************************************************)
(* CprSessionCache never shares a curl handle, keeps its limit, and uses   *)
(* its age limit as its comments say: for every number of workers, hosts   *)
(* and handles, every limit and every range of the clock.                  *)
(*                                                                         *)
(* Every operation leaves of a host's vector a run of consecutive items    *)
(* (a slice), to which only ReturnSession appends one.  That is what keeps *)
(* a handle in one place and, while the clock is not stepped back, the     *)
(* vector sorted by time of use (Ordered), which NewestLast and            *)
(* FreshSurvive rest on.                                                   *)
(***************************************************************************)
EXTENDS CprSessionCache, FiniteSetTheorems, TLAPS

\* The session a worker holds was created for a URL that has a host, or for a
\* relative one on a thread that has parsed a URL with a host.
HeldHost ==
    \A w \in Worker : holds[w] # None /\ max_sessions_per_host # 0
        => url_of[w] \in Host \/ (url_of[w] = Relative /\ curl_url[w] # NoHost)

\* Without a step back of the clock the vectors are sorted by time of use, and
\* nothing was used in the future.
Ordered ==
    steps_back = 0 =>
        \A h \in Host :
            /\ \A i, j \in 1 .. Len(cache[h]) :
                  i <= j => cache[h][i].last_use <= cache[h][j].last_use
            /\ \A i \in 1 .. Len(cache[h]) : cache[h][i].last_use <= now

\* The inductive invariant.
IInv ==
    /\ TypeOK
    /\ Exclusive
    /\ WithinLimit
    /\ HeldHost
    /\ Ordered

-----------------------------------------------------------------------------
(* Slices of a vector. *)

\* s is t without some items at its front and some at its end.
SliceAt(s, t, d) ==
    /\ d \in Nat /\ Len(s) + d <= Len(t)
    /\ \A i \in 1 .. Len(s) : s[i] = t[i + d]

SliceOf(s, t) == \E d \in Nat : SliceAt(s, t, d)

\* Erasing the first n items leaves a slice.
LEMMA EraseFirstSlice ==
    ASSUME NEW S, NEW t \in Seq(S), NEW n \in 0 .. Len(t)
    PROVE  /\ EraseFirst(t, n) \in Seq(S)
           /\ Len(EraseFirst(t, n)) = Len(t) - n
           /\ SliceAt(EraseFirst(t, n), t, n)
<1>1. Len(t) \in Nat /\ n \in Nat
  OBVIOUS
<1>2. /\ EraseFirst(t, n) \in Seq(S)
      /\ Len(EraseFirst(t, n)) = Len(t) - n
  BY <1>1 DEF EraseFirst
<1>3. \A i \in 1 .. Len(t) - n : EraseFirst(t, n)[i] = t[i + n]
  BY <1>1 DEF EraseFirst
<1>4. QED
  BY <1>1, <1>2, <1>3 DEF SliceAt

\* pop_back leaves a slice.
LEMMA PopBackSlice ==
    ASSUME NEW S, NEW t \in Seq(S), t # <<>>
    PROVE  /\ SubSeq(t, 1, Len(t) - 1) \in Seq(S)
           /\ Len(SubSeq(t, 1, Len(t) - 1)) = Len(t) - 1
           /\ SliceAt(SubSeq(t, 1, Len(t) - 1), t, 0)
<1>1. Len(t) \in Nat /\ Len(t) > 0
  OBVIOUS
<1> DEFINE n == Len(t) - 1
<1>2. n \in Nat /\ n <= Len(t)
  BY <1>1
<1> HIDE DEF n
<1>3. /\ SubSeq(t, 1, n) \in Seq(S)
      /\ Len(SubSeq(t, 1, n)) = n
      /\ \A i \in 1 .. n : SubSeq(t, 1, n)[i] = t[i]
  BY <1>1, <1>2
<1>4. SliceAt(SubSeq(t, 1, n), t, 0)
  BY <1>1, <1>2, <1>3 DEF SliceAt
<1>5. QED
  BY <1>3, <1>4 DEF n

\* A vector is a slice of itself, and the empty vector one of any.
LEMMA TrivialSlices ==
    ASSUME NEW S, NEW t \in Seq(S)
    PROVE  SliceAt(t, t, 0) /\ SliceAt(<<>>, t, 0) /\ <<>> \in Seq(S)
BY DEF SliceAt

\* What FreeSpaceForSession leaves of a vector within the limit: a slice that
\* has room for one more item.
LEMMA FreeSpaceMakesRoom ==
    ASSUME max_sessions_per_host \in Nat \ {0}, NEW time,
           NEW t \in Seq(CacheItem), Len(t) <= max_sessions_per_host,
           NEW s \in FreeSpaceForSession(t, time)
    PROVE  /\ s \in Seq(CacheItem)
           /\ Len(s) < max_sessions_per_host
           /\ SliceOf(s, t)
<1>1. Len(t) \in Nat
  OBVIOUS
<1>2. CASE Len(t) < max_sessions_per_host
  BY <1>2, TrivialSlices DEF FreeSpaceForSession, SliceOf
<1>3. CASE ~(Len(t) < max_sessions_per_host)
  <2>1. PICK k \in LowerBounds(t, time) :
            s = EraseFirst(t, IF k # 0 THEN k
                              ELSE (Len(t) - max_sessions_per_host) + 1)
    BY <1>3 DEF FreeSpaceForSession
  <2> DEFINE n == IF k # 0 THEN k ELSE (Len(t) - max_sessions_per_host) + 1
  <2>2. n \in 0 .. Len(t) /\ n >= 1
    BY <1>1, <1>3 DEF LowerBounds
  <2> HIDE DEF n
  <2>3. /\ s \in Seq(CacheItem) /\ Len(s) = Len(t) - n /\ SliceAt(s, t, n)
    BY <2>1, <2>2, EraseFirstSlice DEF n
  <2>4. QED
    BY <1>1, <2>2, <2>3 DEF SliceOf
<1>4. QED
  BY <1>2, <1>3

-----------------------------------------------------------------------------
(* Hosts. *)

\* GetHostByUrl, case by case.
LEMMA HostOfUrl ==
    ASSUME TypeOK, NEW w \in Worker, NEW u \in Url
    PROVE  /\ u \in Host => GetHostByUrl(w, u) = u
           /\ u = Relative => GetHostByUrl(w, u) = curl_url[w]
           /\ u = Malformed => GetHostByUrl(w, u) = NoHost
           /\ GetHostByUrl(w, u) \in Host \cup {NoHost}
<1>1. /\ Relative \notin Host /\ Malformed \notin Host /\ NoHost \notin Host
      /\ Relative # Malformed
  BY NoHostAssumption, UrlAssumption
<1>2. CASE u \in Host
  BY <1>1, <1>2 DEF GetHostByUrl
<1>3. CASE u = Relative
  BY <1>1, <1>3 DEF GetHostByUrl, TypeOK
<1>4. CASE u = Malformed
  BY <1>1, <1>4 DEF GetHostByUrl
<1>5. QED
  BY <1>1, <1>2, <1>3, <1>4 DEF Url

-----------------------------------------------------------------------------
(* Steps that add nothing to the cache. *)

\* Of every vector a slice is left.
Shrinks ==
    /\ cache' \in [Host -> Seq(CacheItem)]
    /\ \A h \in Host : SliceOf(cache'[h], cache[h])

\* Item i of s is item i + d of t.
Indexes(s, t, d) ==
    \A i \in 1 .. Len(s) : i + d \in 1 .. Len(t) /\ s[i] = t[i + d]

\* Lengths and indexes of a slice.
LEMMA SliceIndexes ==
    ASSUME NEW S, NEW s \in Seq(S), NEW t \in Seq(S), NEW d, SliceAt(s, t, d)
    PROVE  /\ d \in Nat /\ Len(s) \in Nat /\ Len(t) \in Nat /\ Len(s) <= Len(t)
           /\ Indexes(s, t, d)
<1>1. d \in Nat /\ Len(s) \in Nat /\ Len(t) \in Nat /\ Len(s) + d <= Len(t)
  BY DEF SliceAt
<1>2. \A i \in 1 .. Len(s) : i + d \in 1 .. Len(t)
  BY <1>1
<1>3. Indexes(s, t, d)
  BY <1>2 DEF SliceAt, Indexes
<1>4. QED
  BY <1>1, <1>3

\* How much shorter each vector of a shrunken cache is at its front.
LEMMA ShrinkIndexes ==
    ASSUME TypeOK, Shrinks, NEW h \in Host
    PROVE  /\ cache[h] \in Seq(CacheItem) /\ cache'[h] \in Seq(CacheItem)
           /\ Len(cache'[h]) \in Nat /\ Len(cache[h]) \in Nat
           /\ Len(cache'[h]) <= Len(cache[h])
           /\ \E d \in Nat : Indexes(cache'[h], cache[h], d)
<1>1. PICK s : s = cache'[h]
  OBVIOUS
<1>2. PICK t : t = cache[h]
  OBVIOUS
<1>3. s \in Seq(CacheItem) /\ t \in Seq(CacheItem)
  BY <1>1, <1>2 DEF TypeOK, Shrinks
<1>4. PICK d \in Nat : SliceAt(s, t, d)
  BY <1>1, <1>2 DEF Shrinks, SliceOf
<1>5. Len(s) \in Nat /\ Len(t) \in Nat /\ Len(s) <= Len(t) /\ Indexes(s, t, d)
  BY <1>3, <1>4, SliceIndexes
<1>6. QED
  BY <1>1, <1>2, <1>3, <1>5

\* Every item of a slice is an item of the vector.
LEMMA ShrinkItems ==
    ASSUME TypeOK, Shrinks, NEW h \in Host, NEW i \in 1 .. Len(cache'[h])
    PROVE  \E k \in 1 .. Len(cache[h]) : cache'[h][i] = cache[h][k]
<1>1. PICK d \in Nat : Indexes(cache'[h], cache[h], d)
  BY ShrinkIndexes
<1>2. i + d \in 1 .. Len(cache[h]) /\ cache'[h][i] = cache[h][i + d]
  BY <1>1 DEF Indexes
<1>3. QED
  BY <1>2

\* A cached handle is a handle.
LEMMA CachedHandles ==
    ASSUME TypeOK, NEW h \in Host
    PROVE  Cached(h) \subseteq CurlHandle
<1>1. \A i \in 1 .. Len(cache[h]) : cache[h][i] \in CacheItem
  BY DEF TypeOK
<1>2. QED
  BY <1>1 DEF Cached, CacheItem

\* Items of a shrunken cache are at different places of the old one.
LEMMA ShrinkInjective ==
    ASSUME TypeOK, Exclusive, Shrinks,
           NEW g \in Host, NEW h \in Host,
           NEW i \in 1 .. Len(cache'[g]), NEW j \in 1 .. Len(cache'[h]),
           cache'[g][i].curl_holder = cache'[h][j].curl_holder
    PROVE  g = h /\ i = j
<1>1. PICK d \in Nat : Indexes(cache'[g], cache[g], d)
  BY ShrinkIndexes
<1>2. PICK e \in Nat : Indexes(cache'[h], cache[h], e)
  BY ShrinkIndexes
<1>3. i + d \in 1 .. Len(cache[g]) /\ cache'[g][i] = cache[g][i + d]
  BY <1>1 DEF Indexes
<1>4. j + e \in 1 .. Len(cache[h]) /\ cache'[h][j] = cache[h][j + e]
  BY <1>2 DEF Indexes
<1>5. g = h
  <2>1. cache[g][i + d].curl_holder = cache[h][j + e].curl_holder
    BY <1>3, <1>4
  <2>2. QED
    BY <1>3, <1>4, <2>1 DEF Exclusive
<1>6. j + d \in 1 .. Len(cache[g]) /\ cache'[g][j] = cache[g][j + d]
  BY <1>1, <1>5 DEF Indexes
<1>7. cache[g][i + d].curl_holder = cache[g][j + d].curl_holder
  BY <1>3, <1>5, <1>6
<1>8. i + d = j + d
  BY <1>3, <1>6, <1>7 DEF Exclusive
<1>9. Len(cache'[g]) \in Nat /\ Len(cache'[h]) \in Nat
  BY ShrinkIndexes
<1>10. QED
  BY <1>5, <1>8, <1>9

\* A worker drops its handle, or gets one that no one else holds and that is
\* not, or no longer, in the cache.
LEMMA ShrinkExclusive ==
    ASSUME TypeOK, Exclusive, Shrinks, NEW w \in Worker, NEW c \in CurlHandle \cup {None},
           holds' = [holds EXCEPT ![w] = c],
           c # None => /\ \A v \in Worker \ {w} : holds[v] # c
                       /\ \A h \in Host : c \notin Cached(h)'
    PROVE  Exclusive'
<1>1. \A v \in Worker : holds'[v] = IF v = w THEN c ELSE holds[v]
  BY DEF TypeOK
<1>2. \A h \in Host : Cached(h)' \subseteq Cached(h)
  BY ShrinkItems DEF Cached
<1>3. \A h \in Host : None \notin Cached(h)
  BY CachedHandles, NoneAssumption
<1>4. \A u, v \in Worker : u # v /\ holds'[u] # None => holds'[u] # holds'[v]
  BY <1>1 DEF Exclusive
<1>5. \A v \in Worker, h \in Host : holds'[v] \notin Cached(h)'
  BY <1>1, <1>2, <1>3 DEF Exclusive
<1>6. QED
  BY <1>4, <1>5, ShrinkInjective DEF Exclusive

\* The limit and the order survive.
LEMMA ShrinkLimitOrder ==
    ASSUME TypeOK, WithinLimit, Ordered, Shrinks,
           UNCHANGED max_sessions_per_host, now' \in 0 .. MaxTime,
           steps_back' = 0 => steps_back = 0 /\ now <= now'
    PROVE  WithinLimit' /\ Ordered'
<1>1. \A h \in Host : cache[h] \in Seq(CacheItem) /\ cache'[h] \in Seq(CacheItem)
  BY DEF TypeOK, Shrinks
<1>2. max_sessions_per_host \in Nat /\ now \in Nat /\ now' \in Nat
  BY BoundsAssumption DEF TypeOK
<1>3. WithinLimit'
  <2> SUFFICES ASSUME NEW h \in Host PROVE Len(cache'[h]) <= max_sessions_per_host
    BY DEF WithinLimit
  <2>1. /\ Len(cache'[h]) <= Len(cache[h]) /\ Len(cache'[h]) \in Nat
        /\ Len(cache[h]) \in Nat
    BY ShrinkIndexes
  <2>2. QED
    BY <1>2, <2>1 DEF WithinLimit
<1>4. Ordered'
  <2> SUFFICES ASSUME steps_back' = 0, NEW h \in Host
               PROVE  /\ \A i, j \in 1 .. Len(cache'[h]) :
                            i <= j => cache'[h][i].last_use <= cache'[h][j].last_use
                      /\ \A i \in 1 .. Len(cache'[h]) : cache'[h][i].last_use <= now'
    BY DEF Ordered
  <2>1. PICK d \in Nat : Indexes(cache'[h], cache[h], d)
    BY ShrinkIndexes
  <2>2. \A i \in 1 .. Len(cache'[h]) :
           i + d \in 1 .. Len(cache[h]) /\ cache'[h][i] = cache[h][i + d]
    BY <2>1 DEF Indexes
  <2>3. steps_back = 0 /\ now <= now'
    OBVIOUS
  <2>4. ASSUME NEW i \in 1 .. Len(cache'[h]), NEW j \in 1 .. Len(cache'[h]), i <= j
        PROVE  cache'[h][i].last_use <= cache'[h][j].last_use
    <3>1. i + d <= j + d
      BY <1>1, <2>4
    <3>2. \A m, n \in 1 .. Len(cache[h]) :
             m <= n => cache[h][m].last_use <= cache[h][n].last_use
      BY <2>3 DEF Ordered
    <3>3. cache[h][i + d].last_use <= cache[h][j + d].last_use
      BY <2>2, <3>1, <3>2
    <3>4. QED
      BY <2>2, <3>3
  <2>5. ASSUME NEW i \in 1 .. Len(cache'[h])
        PROVE  cache'[h][i].last_use <= now'
    <3>0. cache[h][i + d] \in CacheItem
      BY <1>1, <2>2
    <3>1. cache[h][i + d].last_use \in Nat
      BY <3>0, BoundsAssumption DEF CacheItem
    <3>2. cache[h][i + d].last_use <= now
      BY <2>2, <2>3 DEF Ordered
    <3>3. cache'[h][i].last_use = cache[h][i + d].last_use
      BY <2>2
    <3>4. QED
      BY <1>2, <2>3, <3>1, <3>2, <3>3
  <2>6. QED
    BY <2>4, <2>5
<1>5. QED
  BY <1>3, <1>4

\* A cache that does not change is a slice of itself.
LEMMA SameShrinks == TypeOK /\ UNCHANGED cache => Shrinks
<1> SUFFICES ASSUME TypeOK, UNCHANGED cache PROVE Shrinks
  OBVIOUS
<1>1. \A h \in Host : cache[h] \in Seq(CacheItem) /\ SliceOf(cache[h], cache[h])
  BY TrivialSlices DEF TypeOK, SliceOf
<1>2. QED
  BY <1>1 DEF Shrinks, TypeOK

\* One vector is replaced by a slice of it.
LEMMA OneShrinks ==
    ASSUME TypeOK, NEW h \in Host, NEW s \in Seq(CacheItem), SliceOf(s, cache[h]),
           cache' = [cache EXCEPT ![h] = s]
    PROVE  Shrinks
<1>1. \A g \in Host : cache'[g] = IF g = h THEN s ELSE cache[g]
  BY DEF TypeOK
<1>2. \A g \in Host : SliceOf(cache[g], cache[g])
  BY TrivialSlices DEF TypeOK, SliceOf
<1>3. QED
  BY <1>1, <1>2 DEF Shrinks, TypeOK

-----------------------------------------------------------------------------
(* GetSession. *)

\* A worker that has none takes a session for a URL whose host, if the cache is
\* on, was found.
LEMMA TakeStep ==
    ASSUME IInv, NEW w \in Worker, NEW u \in Url, NEW c \in CurlHandle, Take(w, u, c),
           Shrinks, holds[w] = None,
           \A v \in Worker \ {w} : holds[v] # c,
           \A h \in Host : c \notin Cached(h)',
           \/ max_sessions_per_host = 0 /\ curl_url' = curl_url
           \/ GetHostByUrl(w, u) # NoHost /\ Parsed(w, GetHostByUrl(w, u)),
           UNCHANGED <<now, steps_back, max_sessions_per_host>>
    PROVE  IInv'
<1>1. TypeOK /\ Exclusive /\ WithinLimit /\ HeldHost /\ Ordered
  BY DEF IInv
<1>2. GetHostByUrl(w, u) \in Host \cup {NoHost}
  BY <1>1, HostOfUrl
<1>3. TypeOK'
  BY <1>1, <1>2 DEF TypeOK, Take, Parsed, Shrinks
<1>4. Exclusive'
  BY <1>1, ShrinkExclusive DEF Take
<1>5. WithinLimit' /\ Ordered'
  <2>1. now <= now' /\ now' \in 0 .. MaxTime
    BY <1>1, BoundsAssumption DEF TypeOK
  <2>2. QED
    BY <1>1, <2>1, ShrinkLimitOrder
<1>6. HeldHost'
  <2>1. ASSUME NEW v \in Worker, v # w
        PROVE  holds'[v] = holds[v] /\ url_of'[v] = url_of[v] /\ curl_url'[v] = curl_url[v]
    BY <1>1, <2>1 DEF Take, Parsed, TypeOK
  <2>2. CASE max_sessions_per_host = 0
    BY <2>2 DEF HeldHost
  <2>3. CASE GetHostByUrl(w, u) # NoHost /\ Parsed(w, GetHostByUrl(w, u))
    <3>1. url_of'[w] = u /\ curl_url'[w] = GetHostByUrl(w, u)
      BY <1>1, <2>3 DEF Take, Parsed, TypeOK
    <3>2. u \in Host \/ u = Relative
      BY <1>1, <2>3, HostOfUrl DEF Url
    <3>3. QED
      BY <1>1, <2>1, <2>3, <3>1, <3>2 DEF HeldHost
  <2>4. QED
    BY <2>2, <2>3
<1>7. QED
  BY <1>3, <1>4, <1>5, <1>6 DEF IInv

\* A new curl handle is held by no worker and is in no vector.
LEMMA NewHandle ==
    ASSUME NEW c \in CurlHandle \ Live
    PROVE  /\ \A v \in Worker : holds[v] # c
           /\ \A h \in Host : c \notin Cached(h)
BY DEF Live

\* A session with a new handle.
LEMMA GetNewStep ==
    ASSUME IInv, NEW w \in Worker, NEW u \in Url,
           GetUncachedSession(w, u) \/ GetNewSession(w, u)
    PROVE  IInv' /\ Shrinks
<1>0. TypeOK
  BY DEF IInv
<1>1. PICK c \in CurlHandle \ Live : Take(w, u, c)
  BY DEF GetUncachedSession, GetNewSession, CreateSession
<1>2. Shrinks
  <2>1. CASE GetUncachedSession(w, u)
    BY <1>0, <2>1, SameShrinks DEF GetUncachedSession
  <2>2. CASE GetNewSession(w, u)
    <3>1. GetHostByUrl(w, u) \in Host
      BY <1>0, <2>2, HostOfUrl DEF GetNewSession
    <3>2. <<>> \in Seq(CacheItem) /\ SliceOf(<<>>, cache[GetHostByUrl(w, u)])
      BY <1>0, <3>1, TrivialSlices DEF TypeOK, SliceOf
    <3>3. cache' = [cache EXCEPT ![GetHostByUrl(w, u)] = <<>>]
      BY <2>2 DEF GetNewSession
    <3>4. QED
      BY <1>0, <3>1, <3>2, <3>3, OneShrinks
  <2>3. QED
    BY <2>1, <2>2
<1>3. \A h \in Host : Cached(h)' \subseteq Cached(h)
  BY <1>0, <1>2, ShrinkItems DEF Cached
<1>4. /\ \A v \in Worker \ {w} : holds[v] # c
      /\ \A h \in Host : c \notin Cached(h)'
  BY <1>3, NewHandle
<1>5. /\ holds[w] = None
      /\ \/ max_sessions_per_host = 0 /\ curl_url' = curl_url
         \/ GetHostByUrl(w, u) # NoHost /\ Parsed(w, GetHostByUrl(w, u))
      /\ UNCHANGED <<now, steps_back, max_sessions_per_host>>
  BY DEF GetUncachedSession, GetNewSession
<1>6. QED
  BY <1>1, <1>2, <1>4, <1>5, TakeStep

\* Item n of host h, the newest, is fresh and handed to worker w; the rest stays.
HandsOut(w, u, h, n) ==
    /\ h \in Host /\ n \in 1 .. Len(cache[h])
    /\ cache[h] \in Seq(CacheItem)
    /\ cache' = [cache EXCEPT ![h] = SubSeq(cache[h], 1, n - 1)]
    /\ SubSeq(cache[h], 1, n - 1) \in Seq(CacheItem)
    /\ Len(SubSeq(cache[h], 1, n - 1)) = n - 1
    /\ SliceAt(SubSeq(cache[h], 1, n - 1), cache[h], 0)
    /\ cache[h][n].curl_holder \in CurlHandle
    /\ Take(w, u, cache[h][n].curl_holder)
    /\ ~IsSessionCacheExpired(cache[h][n], now)

\* That is what GetSession does when an item can be reused.
LEMMA HandedOut ==
    ASSUME IInv, NEW w \in Worker, NEW u \in Url, GetCachedSession(w, u)
    PROVE  HandsOut(w, u, GetHostByUrl(w, u), Len(cache[GetHostByUrl(w, u)]))
<1> DEFINE h == GetHostByUrl(w, u)
           n == Len(cache[h])
<1>0. TypeOK
  BY DEF IInv
<1>1. h \in Host /\ cache[h] # <<>> /\ ~IsSessionCacheExpired(cache[h][n], now)
  BY <1>0, HostOfUrl DEF GetCachedSession, Reusable
<1>2. cache[h] \in Seq(CacheItem)
  BY <1>0, <1>1 DEF TypeOK
<1>3. n \in 1 .. Len(cache[h])
  BY <1>1, <1>2
<1>4. /\ cache' = [cache EXCEPT ![h] = SubSeq(cache[h], 1, n - 1)]
      /\ Take(w, u, cache[h][n].curl_holder)
  BY <1>0 DEF GetCachedSession, TypeOK
<1>5. cache[h][n] \in CacheItem
  BY <1>2, <1>3
<1>6. cache[h][n].curl_holder \in CurlHandle
  BY <1>5 DEF CacheItem
<1>7. /\ SubSeq(cache[h], 1, n - 1) \in Seq(CacheItem)
      /\ Len(SubSeq(cache[h], 1, n - 1)) = n - 1
      /\ SliceAt(SubSeq(cache[h], 1, n - 1), cache[h], 0)
  BY <1>1, <1>2, PopBackSlice
<1>8. QED
  BY <1>1, <1>2, <1>3, <1>4, <1>6, <1>7 DEF HandsOut

\* A session with the newest handle of the host, which leaves the cache.
LEMMA GetCachedStep ==
    ASSUME IInv, NEW w \in Worker, NEW u \in Url, GetCachedSession(w, u)
    PROVE  IInv' /\ Shrinks
<1> DEFINE h == GetHostByUrl(w, u)
           n == Len(cache[h])
<1>0. HandsOut(w, u, h, n)
  BY HandedOut
<1>10. /\ holds[w] = None /\ h # NoHost /\ Parsed(w, h) /\ h = GetHostByUrl(w, u)
      /\ UNCHANGED <<now, steps_back, max_sessions_per_host>>
  BY DEF GetCachedSession
<1> HIDE DEF h, n
<1> DEFINE s == SubSeq(cache[h], 1, n - 1)
           c == cache[h][n].curl_holder
<1>1. /\ h \in Host /\ n \in 1 .. Len(cache[h]) /\ cache[h] \in Seq(CacheItem)
      /\ cache' = [cache EXCEPT ![h] = s] /\ s \in Seq(CacheItem) /\ Len(s) = n - 1
      /\ SliceAt(s, cache[h], 0) /\ c \in CurlHandle /\ Take(w, u, c)
  BY <1>0 DEF HandsOut
<1>2. TypeOK /\ Exclusive
  BY DEF IInv
<1>3. Shrinks
  <2>1. SliceOf(s, cache[h])
    BY <1>1 DEF SliceOf
  <2>2. QED
    BY <1>1, <1>2, <2>1, OneShrinks
<1>4. \A v \in Worker \ {w} : holds[v] # c
  <2>1. c \in Cached(h)
    BY <1>1 DEF Cached
  <2>2. QED
    BY <1>1, <1>2, <2>1 DEF Exclusive
<1>5. \A g \in Host : c \notin Cached(g)'
  <2> SUFFICES ASSUME NEW g \in Host, NEW i \in 1 .. Len(cache'[g]),
                      cache'[g][i].curl_holder = c
               PROVE  FALSE
    BY DEF Cached
  <2>0. \A f, k \in Host : \A m \in 1 .. Len(cache[f]), q \in 1 .. Len(cache[k]) :
            cache[f][m].curl_holder = cache[k][q].curl_holder => f = k /\ m = q
    BY <1>2 DEF Exclusive
  <2>1. CASE g = h
    <3>1. cache'[g] = s
      BY <1>1, <1>2, <2>1 DEF TypeOK
    <3>2. i \in 1 .. n - 1 /\ i \in 1 .. Len(cache[h]) /\ i # n
      BY <1>1, <3>1
    <3>3. s[i] = cache[h][i]
      BY <1>1, <3>1, <3>2 DEF SliceAt
    <3> HIDE DEF s
    <3>4. cache[h][i].curl_holder = cache[h][n].curl_holder
      BY <3>1, <3>3
    <3>5. QED
      BY <1>1, <2>0, <3>2, <3>4
  <2>2. CASE g # h
    <3>1. cache'[g] = cache[g]
      BY <1>1, <1>2, <2>2 DEF TypeOK
    <3> HIDE DEF s
    <3>2. cache[g][i].curl_holder = cache[h][n].curl_holder
      BY <3>1
    <3>3. QED
      BY <1>1, <2>0, <2>2, <3>1, <3>2
  <2>3. QED
    BY <2>1, <2>2
<1>6. QED
  BY <1>1, <1>3, <1>4, <1>5, <1>10, TakeStep

-----------------------------------------------------------------------------
(* ReturnSession. *)

\* The vector that ReturnSession leaves: a slice with room, and the handle.
LEMMA Returned ==
    ASSUME IInv, NEW w \in Worker, ReturnSession(w),
           NEW h, h = GetHostByUrl(w, url_of[w]),
           NEW item, item = [curl_holder |-> holds[w], last_use |-> now]
    PROVE  /\ h \in Host /\ item \in CacheItem
           /\ \E s \in FreeSpaceForSession(cache[h], now) :
                 /\ s \in Seq(CacheItem) /\ SliceOf(s, cache[h])
                 /\ Len(s) < max_sessions_per_host
                 /\ cache' = [cache EXCEPT ![h] = Append(s, item)]
<1>0. TypeOK /\ WithinLimit
  BY DEF IInv
<1>1. h \in Host
  <2>1. url_of[w] \in Url
    BY <1>0 DEF TypeOK
  <2>2. QED
    BY <1>0, <2>1, HostOfUrl DEF ReturnSession
<1>2. item \in CacheItem
  BY <1>0 DEF TypeOK, ReturnSession, CacheItem
<1>3. /\ cache[h] \in Seq(CacheItem) /\ Len(cache[h]) <= max_sessions_per_host
      /\ max_sessions_per_host \in Nat \ {0}
  BY <1>0, <1>1, BoundsAssumption DEF TypeOK, WithinLimit, ReturnSession
<1>4. PICK s \in FreeSpaceForSession(cache[h], now) :
          cache' = [cache EXCEPT ![h] = Append(s, item)]
  BY DEF ReturnSession
<1>5. s \in Seq(CacheItem) /\ SliceOf(s, cache[h]) /\ Len(s) < max_sessions_per_host
  BY <1>3, FreeSpaceMakesRoom
<1>6. QED
  BY <1>1, <1>2, <1>4, <1>5

\* The cache without its newest item is a shrunken cache, so what is said of
\* those applies: here for the items of two vectors after a return.
LEMMA ReturnStep ==
    ASSUME IInv, NEW w \in Worker, ReturnSession(w)
    PROVE  IInv'
<1> DEFINE h == GetHostByUrl(w, url_of[w])
           item == [curl_holder |-> holds[w], last_use |-> now]
<1>0. TypeOK /\ Exclusive /\ WithinLimit /\ HeldHost /\ Ordered
  BY DEF IInv
<1>1. h \in Host /\ item \in CacheItem
  BY Returned
<1>2. PICK s \in FreeSpaceForSession(cache[h], now) :
          /\ s \in Seq(CacheItem) /\ SliceOf(s, cache[h])
          /\ Len(s) < max_sessions_per_host
          /\ cache' = [cache EXCEPT ![h] = Append(s, item)]
  BY Returned
<1>3. /\ Take(w, Malformed, None) /\ Parsed(w, h) /\ h # NoHost /\ holds[w] # None
      /\ UNCHANGED <<now, steps_back, max_sessions_per_host>>
      /\ item.curl_holder = holds[w] /\ item.last_use = now
  BY DEF ReturnSession
<1> HIDE DEF h, item
<1>4. PICK d \in Nat : SliceAt(s, cache[h], d)
  BY <1>2 DEF SliceOf
<1>5. /\ cache[h] \in Seq(CacheItem) /\ Len(s) \in Nat
      /\ \A i \in 1 .. Len(s) : i + d \in 1 .. Len(cache[h]) /\ s[i] = cache[h][i + d]
  <2>1. cache[h] \in Seq(CacheItem)
    BY <1>0, <1>1 DEF TypeOK
  <2>2. s \in Seq(CacheItem)
    BY <1>2
  <2>3. QED
    BY <1>4, <2>1, <2>2, SliceIndexes DEF Indexes
<1>6. /\ cache' \in [Host -> Seq(CacheItem)]
      /\ \A g \in Host \ {h} : cache'[g] = cache[g]
      /\ cache'[h] \in Seq(CacheItem)
      /\ Len(cache'[h]) = Len(s) + 1
      /\ \A i \in 1 .. Len(s) : cache'[h][i] = cache[h][i + d]
      /\ cache'[h][Len(s) + 1] = item
  <2>1. cache'[h] = Append(s, item) /\ \A g \in Host \ {h} : cache'[g] = cache[g]
    BY <1>0, <1>1, <1>2 DEF TypeOK
  <2>2. Append(s, item) \in Seq(CacheItem)
    BY <1>1, <1>2
  <2>3. cache' \in [Host -> Seq(CacheItem)]
    BY <1>0, <1>1, <1>2, <2>2 DEF TypeOK
  <2>4. QED
    BY <1>1, <1>2, <1>5, <2>1, <2>2, <2>3
<1>7. \A v \in Worker : holds'[v] = IF v = w THEN None ELSE holds[v]
  BY <1>0, <1>3 DEF Take, TypeOK
<1>8. TypeOK'
  <2>1. Malformed \in Url
    BY DEF Url
  <2>2. QED
    BY <1>0, <1>1, <1>3, <1>6, <2>1 DEF TypeOK, Take, Parsed
<1>9. WithinLimit'
  <2>1. max_sessions_per_host \in Nat
    BY <1>0, BoundsAssumption DEF TypeOK
  <2>2. Len(cache'[h]) <= max_sessions_per_host
    BY <1>2, <1>5, <1>6, <2>1
  <2>3. QED
    BY <1>0, <1>3, <1>6, <2>2 DEF WithinLimit
<1>10. HeldHost'
  BY <1>0, <1>1, <1>3, <1>7 DEF HeldHost, Take, Parsed, TypeOK
<1>11. \A g \in Host : \A i \in 1 .. Len(cache'[g]) :
          \/ \E k \in 1 .. Len(cache[g]) : cache'[g][i] = cache[g][k]
          \/ g = h /\ i = Len(s) + 1 /\ cache'[g][i] = item
  <2> SUFFICES ASSUME NEW g \in Host, NEW i \in 1 .. Len(cache'[g])
               PROVE  \/ \E k \in 1 .. Len(cache[g]) : cache'[g][i] = cache[g][k]
                      \/ g = h /\ i = Len(s) + 1 /\ cache'[g][i] = item
    OBVIOUS
  <2>1. CASE g # h
    BY <1>6, <2>1
  <2>2. CASE g = h /\ i \in 1 .. Len(s)
    BY <1>5, <1>6, <2>2
  <2>3. CASE g = h /\ i = Len(s) + 1
    BY <1>6, <2>3
  <2>4. QED
    BY <1>5, <1>6, <2>1, <2>2, <2>3
<1>12. \A g \in Host : Cached(g)' \subseteq Cached(g) \cup {holds[w]}
  BY <1>3, <1>11 DEF Cached
<1>13. Exclusive'
  <2>1. \A u, v \in Worker : u # v /\ holds'[u] # None => holds'[u] # holds'[v]
    BY <1>0, <1>7 DEF Exclusive
  <2>2. \A v \in Worker, g \in Host : holds'[v] \notin Cached(g)'
    <3>1. \A g \in Host : None \notin Cached(g)
      BY <1>0, CachedHandles, NoneAssumption
    <3>2. QED
      BY <1>0, <1>3, <1>7, <1>12, <3>1 DEF Exclusive
  <2>3. ASSUME NEW f \in Host, NEW g \in Host,
               NEW i \in 1 .. Len(cache'[f]), NEW j \in 1 .. Len(cache'[g]),
               cache'[f][i].curl_holder = cache'[g][j].curl_holder
        PROVE  f = g /\ i = j
    <3>1. \A e \in Host : \A k \in 1 .. Len(cache[e]) :
             cache[e][k].curl_holder # item.curl_holder
      BY <1>0, <1>3 DEF Exclusive, Cached
    <3>2. \A e, k \in Host : \A m \in 1 .. Len(cache[e]), n \in 1 .. Len(cache[k]) :
             cache[e][m].curl_holder = cache[k][n].curl_holder => e = k /\ m = n
      BY <1>0 DEF Exclusive
    <3>3. CASE (f = h /\ i = Len(s) + 1) \/ (g = h /\ j = Len(s) + 1)
      <4>1. CASE (f = h /\ i = Len(s) + 1) /\ (g = h /\ j = Len(s) + 1)
        BY <4>1
      <4>2. CASE (f = h /\ i = Len(s) + 1) /\ ~(g = h /\ j = Len(s) + 1)
        <5>1. PICK k \in 1 .. Len(cache[g]) : cache'[g][j] = cache[g][k]
          BY <1>11, <4>2
        <5>2. cache'[f][i] = item
          BY <1>6, <4>2
        <5>3. QED
          BY <2>3, <3>1, <5>1, <5>2
      <4>3. CASE ~(f = h /\ i = Len(s) + 1) /\ (g = h /\ j = Len(s) + 1)
        <5>1. PICK k \in 1 .. Len(cache[f]) : cache'[f][i] = cache[f][k]
          BY <1>11, <4>3
        <5>2. cache'[g][j] = item
          BY <1>6, <4>3
        <5>3. QED
          BY <2>3, <3>1, <5>1, <5>2
      <4>4. QED
        BY <3>3, <4>1, <4>2, <4>3
    <3>4. CASE ~(f = h /\ i = Len(s) + 1) /\ ~(g = h /\ j = Len(s) + 1)
      <4>1. f = g
        <5>1. PICK k \in 1 .. Len(cache[f]) : cache'[f][i] = cache[f][k]
          BY <1>11, <3>4
        <5>2. PICK l \in 1 .. Len(cache[g]) : cache'[g][j] = cache[g][l]
          BY <1>11, <3>4
        <5>3. cache[f][k].curl_holder = cache[g][l].curl_holder
          BY <2>3, <5>1, <5>2
        <5>4. QED
          BY <3>2, <5>3
      <4>2. CASE f # h
        <5>1. cache'[f] = cache[f]
          BY <1>6, <4>2
        <5>2. cache[f][i].curl_holder = cache[f][j].curl_holder
          BY <2>3, <4>1, <5>1
        <5>3. i \in 1 .. Len(cache[f]) /\ j \in 1 .. Len(cache[f])
          BY <4>1, <5>1
        <5>4. QED
          BY <3>2, <4>1, <5>2, <5>3
      <4>3. CASE f = h
        <5>1. i \in 1 .. Len(s) /\ j \in 1 .. Len(s)
          BY <1>5, <1>6, <3>4, <4>1, <4>3
        <5>2. /\ i + d \in 1 .. Len(cache[h]) /\ j + d \in 1 .. Len(cache[h])
              /\ cache[h][i + d].curl_holder = cache[h][j + d].curl_holder
          BY <1>5, <1>6, <2>3, <4>1, <4>3, <5>1
        <5>3. i + d = j + d
          BY <1>1, <3>2, <5>2
        <5>4. QED
          BY <4>1, <5>1, <5>3
      <4>4. QED
        BY <4>2, <4>3
    <3>5. QED
      BY <3>3, <3>4
  <2>4. QED
    BY <2>1, <2>2, <2>3 DEF Exclusive
<1>14. Ordered'
  <2> SUFFICES ASSUME steps_back' = 0, NEW g \in Host
               PROVE  /\ \A i, j \in 1 .. Len(cache'[g]) :
                            i <= j => cache'[g][i].last_use <= cache'[g][j].last_use
                      /\ \A i \in 1 .. Len(cache'[g]) : cache'[g][i].last_use <= now'
    BY DEF Ordered
  <2>1. /\ now' = now /\ now \in Int /\ item.last_use <= now
    BY <1>0, <1>3 DEF TypeOK
  <2>2. /\ \A i, j \in 1 .. Len(cache[g]) :
              i <= j => cache[g][i].last_use <= cache[g][j].last_use
        /\ \A i \in 1 .. Len(cache[g]) : cache[g][i].last_use <= now
    BY <1>0, <1>3 DEF Ordered
  <2>3. \A i \in 1 .. Len(cache'[g]) : cache'[g][i].last_use <= now'
    BY <1>11, <2>1, <2>2
  <2>4. CASE g # h
    <3>1. cache'[g] = cache[g]
      BY <1>6, <2>4
    <3>2. QED
      BY <2>2, <2>3, <3>1
  <2>5. CASE g = h
    <3>1. ASSUME NEW i \in 1 .. Len(cache'[h]), NEW j \in 1 .. Len(cache'[h]), i <= j
          PROVE  cache'[h][i].last_use <= cache'[h][j].last_use
      <4>1. CASE j = Len(s) + 1
        BY <1>3, <1>6, <2>1, <2>3, <2>5, <4>1
      <4>2. CASE i \in 1 .. Len(s) /\ j \in 1 .. Len(s)
        <5>1. i + d \in 1 .. Len(cache[h]) /\ j + d \in 1 .. Len(cache[h])
              /\ i + d <= j + d
          BY <1>4, <1>5, <3>1, <4>2
        <5>2. cache[h][i + d].last_use <= cache[h][j + d].last_use
          BY <2>2, <2>5, <5>1
        <5>3. QED
          BY <1>6, <4>2, <5>2
      <4>3. QED
        BY <1>5, <1>6, <3>1, <4>1, <4>2
    <3>2. QED
      BY <2>3, <2>5, <3>1
  <2>6. QED
    BY <2>4, <2>5
<1>15. QED
  BY <1>8, <1>9, <1>10, <1>13, <1>14 DEF IInv

\* A session that is not kept: its handle is destroyed with it.
LEMMA DropStep ==
    ASSUME IInv, NEW w \in Worker, DropSession(w)
    PROVE  IInv'
<1>0. TypeOK /\ Exclusive /\ WithinLimit /\ HeldHost /\ Ordered
  BY DEF IInv
<1>1. /\ Take(w, Malformed, None)
      /\ UNCHANGED <<cache, now, curl_url, steps_back, max_sessions_per_host>>
  BY DEF DropSession
<1>2. Shrinks
  BY <1>0, <1>1, SameShrinks
<1>3. TypeOK'
  BY <1>0, <1>1 DEF TypeOK, Take, Url
<1>4. Exclusive'
  BY <1>0, <1>1, <1>2, ShrinkExclusive DEF Take
<1>5. WithinLimit' /\ Ordered'
  BY <1>0, <1>1 DEF WithinLimit, Ordered
<1>6. HeldHost'
  BY <1>0, <1>1 DEF HeldHost, Take, TypeOK
<1>7. QED
  BY <1>3, <1>4, <1>5, <1>6 DEF IInv

\* The clock moves.
LEMMA ClockStep ==
    ASSUME IInv, Tick \/ StepBack
    PROVE  IInv'
<1>0. TypeOK /\ Exclusive /\ WithinLimit /\ HeldHost /\ Ordered
  BY DEF IInv
<1>1. UNCHANGED <<cache, holds, url_of, curl_url, max_sessions_per_host>>
  BY DEF Tick, StepBack
<1>2. TypeOK'
  BY <1>0, BoundsAssumption DEF Tick, StepBack, TypeOK
<1>3. steps_back' = 0 => steps_back = 0 /\ now <= now'
  BY <1>0, BoundsAssumption DEF Tick, StepBack, TypeOK
<1>4. Shrinks
  BY <1>0, <1>1, SameShrinks
<1>5. WithinLimit' /\ Ordered'
  BY <1>0, <1>1, <1>2, <1>3, <1>4, ShrinkLimitOrder DEF TypeOK
<1>6. Exclusive' /\ HeldHost'
  BY <1>0, <1>1 DEF Exclusive, HeldHost, Cached
<1>7. QED
  BY <1>2, <1>5, <1>6 DEF IInv

-----------------------------------------------------------------------------
(* The theorems. *)

\* An empty cache satisfies the invariant.
LEMMA IInvInit == Init => IInv
<1> SUFFICES ASSUME Init PROVE IInv
  OBVIOUS
<1>1. \A h \in Host : cache[h] = <<>> /\ Len(cache[h]) = 0
  BY DEF Init
<1>2. max_sessions_per_host \in Nat
  BY BoundsAssumption DEF Init
<1>3. TypeOK
  <2>1. cache \in [Host -> Seq(CacheItem)]
    BY DEF Init
  <2>2. 0 \in 0 .. MaxTime /\ 0 \in 0 .. MaxStepsBack /\ Malformed \in Url
    BY BoundsAssumption DEF Url
  <2>3. QED
    BY <2>1, <2>2 DEF Init, TypeOK
<1>4. Exclusive
  BY <1>1 DEF Init, Exclusive, Cached
<1>5. WithinLimit /\ Ordered /\ HeldHost
  BY <1>1, <1>2 DEF Init, WithinLimit, Ordered, HeldHost
<1>6. QED
  BY <1>3, <1>4, <1>5 DEF IInv

\* Every step keeps the invariant.
LEMMA IInvStep == IInv /\ [Next]_vars => IInv'
<1> SUFFICES ASSUME IInv, [Next]_vars PROVE IInv'
  OBVIOUS
<1>1. CASE \E w \in Worker, u \in Url :
              GetUncachedSession(w, u) \/ GetNewSession(w, u) \/ GetCachedSession(w, u)
  BY <1>1, GetNewStep, GetCachedStep
<1>2. CASE \E w \in Worker : ReturnSession(w) \/ DropSession(w)
  BY <1>2, ReturnStep, DropStep
<1>3. CASE Tick \/ StepBack
  BY <1>3, ClockStep
<1>4. CASE UNCHANGED vars
  BY <1>4 DEF vars, IInv, TypeOK, Exclusive, WithinLimit, HeldHost, Ordered, Cached
<1>5. QED
  BY <1>1, <1>2, <1>3, <1>4 DEF Next

\* The invariant holds in every behaviour of the cache.
LEMMA IInvAlways == Spec => []IInv
BY IInvInit, IInvStep, PTL DEF Spec

\* Type correctness of the session cache.
THEOREM TypeCorrect == Spec => []TypeOK
BY IInvAlways, PTL DEF IInv

\* No curl handle is used by two transfers, or used and cached, or cached twice.
THEOREM HandlesExclusive == Spec => []Exclusive
BY IInvAlways, PTL DEF IInv

\* No host has more idle handles than the limit.
THEOREM LimitKept == Spec => []WithinLimit
BY IInvAlways, PTL DEF IInv

\* ReturnSession finds a host for every session that GetSession gave out.
THEOREM HostFoundOnReturn == Spec => []ReturnFindsHost
<1>1. IInv => ReturnFindsHost
  <2> SUFFICES ASSUME IInv, NEW w \in Worker, holds[w] # None, max_sessions_per_host # 0
               PROVE  GetHostByUrl(w, url_of[w]) # NoHost
    BY DEF ReturnFindsHost
  <2>1. url_of[w] \in Host \/ (url_of[w] = Relative /\ curl_url[w] # NoHost)
    BY DEF IInv, HeldHost
  <2>2. TypeOK /\ url_of[w] \in Url
    BY DEF IInv, TypeOK
  <2>3. NoHost \notin Host
    BY NoHostAssumption
  <2>4. QED
    BY <2>1, <2>2, <2>3, HostOfUrl
<1>2. QED
  BY <1>1, IInvAlways, PTL

\* In a sorted vector whatever is before an expired item is expired.
LEMMA ExpiredBefore ==
    ASSUME IInv, steps_back = 0, NEW h \in Host,
           NEW i \in 1 .. Len(cache[h]), NEW j \in 1 .. Len(cache[h]), i <= j,
           IsSessionCacheExpired(cache[h][j], now)
    PROVE  IsSessionCacheExpired(cache[h][i], now)
<1>1. cache[h][i] \in CacheItem /\ cache[h][j] \in CacheItem
  BY DEF IInv, TypeOK
<1>2. cache[h][i].last_use \in Nat /\ cache[h][j].last_use \in Nat
  BY <1>1, BoundsAssumption DEF CacheItem
<1>3. cache[h][i].last_use <= cache[h][j].last_use
  BY DEF IInv, Ordered
<1>4. now \in Nat /\ MaxAge \in Nat
  BY BoundsAssumption DEF IInv, TypeOK
<1>5. QED
  BY <1>2, <1>3, <1>4 DEF IsSessionCacheExpired

\* While the clock is not stepped back, an expired newest item means that the
\* whole vector is expired.
THEOREM NewestIsLast == Spec => []NewestLast
<1>1. IInv => NewestLast
  <2> SUFFICES ASSUME IInv, steps_back = 0, NEW h \in Host,
                      NEW i \in 1 .. Len(cache[h]),
                      IsSessionCacheExpired(cache[h][Len(cache[h])], now)
               PROVE  IsSessionCacheExpired(cache[h][i], now)
    BY DEF NewestLast
  <2>1. Len(cache[h]) \in 1 .. Len(cache[h]) /\ i <= Len(cache[h])
    BY DEF IInv, TypeOK
  <2>2. QED
    BY <2>1, ExpiredBefore
<1>2. QED
  BY <1>1, IInvAlways, PTL

\* A handle that a worker gets from the cache has not expired.
THEOREM HandoutsFresh == Spec => FreshHandout
<1>1. IInv /\ [Next]_vars =>
        [\A w \in Worker, h \in Host : \A i \in 1 .. Len(cache[h]) :
           holds[w] = None /\ holds'[w] = cache[h][i].curl_holder
              => ~IsSessionCacheExpired(cache[h][i], now)]_vars
  <2> SUFFICES ASSUME IInv, Next, NEW v \in Worker, NEW g \in Host,
                      NEW i \in 1 .. Len(cache[g]),
                      holds[v] = None, holds'[v] = cache[g][i].curl_holder
               PROVE  ~IsSessionCacheExpired(cache[g][i], now)
    OBVIOUS
  <2>1. TypeOK /\ Exclusive
    BY DEF IInv
  <2>2. cache[g][i].curl_holder \in Cached(g) /\ holds'[v] # None
    BY <2>1, CachedHandles, NoneAssumption DEF Cached
  <2>3. ASSUME NEW w \in Worker, NEW u \in Url,
               GetUncachedSession(w, u) \/ GetNewSession(w, u)
        PROVE  FALSE
    <3>1. PICK c \in CurlHandle \ Live : Take(w, u, c)
      BY <2>3 DEF GetUncachedSession, GetNewSession, CreateSession
    <3>2. holds'[v] \in {holds[v], c}
      BY <2>1, <3>1 DEF Take, TypeOK
    <3>3. QED
      BY <2>2, <3>2, NewHandle
  <2>4. ASSUME NEW w \in Worker, NEW u \in Url, GetCachedSession(w, u)
        PROVE  ~IsSessionCacheExpired(cache[g][i], now)
    <3> DEFINE h == GetHostByUrl(w, u)
               n == Len(cache[h])
    <3>1. HandsOut(w, u, h, n)
      BY <2>4, HandedOut
    <3> HIDE DEF h, n
    <3>2. holds'[v] = cache[h][n].curl_holder
      <4>1. Take(w, u, cache[h][n].curl_holder)
        BY <3>1 DEF HandsOut
      <4>2. QED
        BY <2>1, <2>2, <4>1 DEF Take, TypeOK
    <3>3. \A e, k \in Host : \A m \in 1 .. Len(cache[e]), q \in 1 .. Len(cache[k]) :
             cache[e][m].curl_holder = cache[k][q].curl_holder => e = k /\ m = q
      BY <2>1 DEF Exclusive
    <3>4. g = h /\ i = n
      <4>1. h \in Host /\ n \in 1 .. Len(cache[h])
        BY <3>1 DEF HandsOut
      <4>2. cache[g][i].curl_holder = cache[h][n].curl_holder
        BY <3>2
      <4>3. QED
        BY <3>3, <4>1, <4>2
    <3>5. QED
      BY <3>1, <3>4 DEF HandsOut
  <2>5. ASSUME NEW w \in Worker, ReturnSession(w) \/ DropSession(w)
        PROVE  FALSE
    BY <2>1, <2>2, <2>5 DEF ReturnSession, DropSession, Take, TypeOK
  <2>6. ASSUME Tick \/ StepBack
        PROVE  FALSE
    BY <2>2, <2>6 DEF Tick, StepBack
  <2>7. QED
    BY <2>3, <2>4, <2>5, <2>6 DEF Next
<1>2. QED
  BY <1>1, IInvAlways, PTL DEF Spec, FreshHandout

-----------------------------------------------------------------------------
(* What making room costs. *)

\* The handle of item i of host h is still in the host's vector, or a worker got
\* it.
Survives(h, i) ==
    cache[h][i].curl_holder \in Cached(h)' \cup {holds'[w] : w \in Worker}

\* An item that is still in the vector survives.
LEMMA InVectorSurvives ==
    ASSUME NEW h \in Host, NEW i \in 1 .. Len(cache[h]),
           NEW j \in 1 .. Len(cache'[h]), cache'[h][j] = cache[h][i]
    PROVE  Survives(h, i)
BY DEF Survives, Cached

\* Items behind the erased ones survive a return.
LEMMA EraseSurvives ==
    ASSUME TypeOK, NEW h \in Host, NEW n \in 0 .. Len(cache[h]), NEW item \in CacheItem,
           cache' = [cache EXCEPT ![h] = Append(EraseFirst(cache[h], n), item)],
           NEW i \in 1 .. Len(cache[h]), i > n
    PROVE  Survives(h, i)
<1> DEFINE t == cache[h]
           s == EraseFirst(t, n)
<1>1. t \in Seq(CacheItem) /\ cache'[h] = Append(s, item)
  BY DEF TypeOK
<1> HIDE DEF t
<1>2. n \in 0 .. Len(t) /\ i \in 1 .. Len(t)
  BY DEF t
<1>3. s \in Seq(CacheItem) /\ Len(s) = Len(t) - n /\ SliceAt(s, t, n)
  BY <1>1, <1>2, EraseFirstSlice
<1>4. /\ i - n \in 1 .. Len(s) /\ (i - n) + n = i /\ Len(s) \in Nat
  BY <1>1, <1>2, <1>3
<1>5. s[i - n] = t[i]
  BY <1>3, <1>4 DEF SliceAt
<1> HIDE DEF s
<1>6. /\ Append(s, item)[i - n] = s[i - n]
      /\ i - n \in 1 .. Len(Append(s, item))
  BY <1>3, <1>4
<1>7. QED
  BY <1>1, <1>5, <1>6, InVectorSurvives DEF t

\* In a step without a step back of the clock every fresh item of a host
\* survives, or all its items are fresh and only the oldest does not survive.
LEMMA AllButOldestSurvive ==
    ASSUME IInv, [Next]_vars, steps_back' = 0, NEW h \in Host
    PROVE  \/ \A i \in 1 .. Len(cache[h]) :
                 ~IsSessionCacheExpired(cache[h][i], now) => Survives(h, i)
           \/ /\ \A i \in 1 .. Len(cache[h]) : ~IsSessionCacheExpired(cache[h][i], now)
              /\ \A i \in 1 .. Len(cache[h]) : i # 1 => Survives(h, i)
<1>1. TypeOK /\ cache[h] \in Seq(CacheItem) /\ Len(cache[h]) \in Nat
  BY DEF IInv, TypeOK
<1>2. CASE cache'[h] = cache[h]
  BY <1>2, InVectorSurvives
<1>3. ASSUME NEW w \in Worker, NEW u \in Url, GetNewSession(w, u)
      PROVE  \A i \in 1 .. Len(cache[h]) :
                ~IsSessionCacheExpired(cache[h][i], now) => Survives(h, i)
  <2>1. CASE h # GetHostByUrl(w, u)
    BY <1>1, <1>2, <1>3, <2>1, InVectorSurvives DEF GetNewSession, TypeOK
  <2>2. CASE h = GetHostByUrl(w, u)
    <3> SUFFICES ASSUME NEW i \in 1 .. Len(cache[h])
                 PROVE  IsSessionCacheExpired(cache[h][i], now)
      OBVIOUS
    <3>1. ~Reusable(h) /\ steps_back = 0
      BY <1>3, <2>2 DEF GetNewSession
    <3>2. Len(cache[h]) \in 1 .. Len(cache[h]) /\ i <= Len(cache[h]) /\ cache[h] # <<>>
      BY <1>1
    <3>3. IsSessionCacheExpired(cache[h][Len(cache[h])], now)
      BY <3>1, <3>2 DEF Reusable
    <3>4. QED
      BY <3>1, <3>2, <3>3, ExpiredBefore
  <2>3. QED
    BY <2>1, <2>2
<1>4. ASSUME NEW w \in Worker, NEW u \in Url, GetCachedSession(w, u)
      PROVE  \A i \in 1 .. Len(cache[h]) : Survives(h, i)
  <2> SUFFICES ASSUME NEW i \in 1 .. Len(cache[h]) PROVE Survives(h, i)
    OBVIOUS
  <2> DEFINE g == GetHostByUrl(w, u)
             n == Len(cache[g])
             s == SubSeq(cache[g], 1, n - 1)
  <2>1. HandsOut(w, u, g, n)
    BY <1>4, HandedOut
  <2>2. n = Len(cache[g])
    OBVIOUS
  <2> HIDE DEF g, n
  <2>3. /\ g \in Host /\ cache' = [cache EXCEPT ![g] = s] /\ Len(s) = n - 1
        /\ SliceAt(s, cache[g], 0) /\ Take(w, u, cache[g][n].curl_holder)
    BY <2>1 DEF HandsOut
  <2> HIDE DEF s
  <2>4. CASE h # g
    BY <1>1, <2>3, <2>4, InVectorSurvives DEF TypeOK
  <2>5. CASE h = g /\ i = n
    <3>1. holds'[w] = cache[h][i].curl_holder
      BY <1>1, <2>3, <2>5 DEF Take, TypeOK
    <3>2. QED
      BY <3>1 DEF Survives
  <2>6. CASE h = g /\ i # n
    <3>1. cache'[h] = s
      BY <1>1, <2>3, <2>6 DEF TypeOK
    <3>2. i \in 1 .. Len(s) /\ i + 0 = i
      BY <1>1, <2>2, <2>3, <2>6
    <3>3. s[i] = cache[h][i]
      BY <2>3, <2>6, <3>2 DEF SliceAt
    <3>4. QED
      BY <3>1, <3>2, <3>3, InVectorSurvives
  <2>7. QED
    BY <2>4, <2>5, <2>6
<1>5. ASSUME NEW w \in Worker, ReturnSession(w), h = GetHostByUrl(w, url_of[w])
      PROVE  \/ \A i \in 1 .. Len(cache[h]) :
                   ~IsSessionCacheExpired(cache[h][i], now) => Survives(h, i)
             \/ /\ \A i \in 1 .. Len(cache[h]) : ~IsSessionCacheExpired(cache[h][i], now)
                /\ \A i \in 1 .. Len(cache[h]) : i # 1 => Survives(h, i)
  <2> DEFINE item == [curl_holder |-> holds[w], last_use |-> now]
  <2>1. item \in CacheItem /\ steps_back = 0
    BY <1>5, Returned DEF ReturnSession
  <2>2. /\ max_sessions_per_host \in Nat \ {0} /\ Len(cache[h]) <= max_sessions_per_host
    BY <1>1, <1>5, BoundsAssumption DEF ReturnSession, IInv, WithinLimit, TypeOK
  <2>3. PICK s \in FreeSpaceForSession(cache[h], now) :
            cache' = [cache EXCEPT ![h] = Append(s, item)]
    BY <1>5 DEF ReturnSession
  <2> HIDE DEF item
  <2>4. CASE Len(cache[h]) < max_sessions_per_host
    <3>1. s = cache[h]
      BY <2>4 DEF FreeSpaceForSession
    <3>2. cache'[h] = Append(cache[h], item)
      BY <1>1, <2>3, <3>1 DEF TypeOK
    <3>3. \A i \in 1 .. Len(cache[h]) :
             i \in 1 .. Len(cache'[h]) /\ cache'[h][i] = cache[h][i]
      BY <1>1, <2>1, <3>2
    <3>4. QED
      BY <3>3, InVectorSurvives
  <2>5. CASE Len(cache[h]) = max_sessions_per_host
    <3>1. PICK k \in LowerBounds(cache[h], now) :
              s = EraseFirst(cache[h], IF k # 0 THEN k
                                       ELSE (Len(cache[h]) - max_sessions_per_host) + 1)
      BY <2>2, <2>5 DEF FreeSpaceForSession
    <3>2. /\ k \in 0 .. Len(cache[h])
          /\ k > 0 => IsSessionCacheExpired(cache[h][k], now)
          /\ k < Len(cache[h]) => ~IsSessionCacheExpired(cache[h][k + 1], now)
      BY DEF LowerBounds
    <3>3. CASE k # 0
      <4>1. s = EraseFirst(cache[h], k)
        BY <3>1, <3>3
      <4>2. ASSUME NEW i \in 1 .. Len(cache[h]), ~IsSessionCacheExpired(cache[h][i], now)
            PROVE  i > k
        <5>1. k \in 1 .. Len(cache[h]) /\ IsSessionCacheExpired(cache[h][k], now)
          BY <1>1, <3>2, <3>3
        <5>2. ~(i <= k)
          BY <2>1, <4>2, <5>1, ExpiredBefore
        <5>3. QED
          BY <5>1, <5>2
      <4>3. QED
        BY <1>1, <2>1, <2>3, <3>2, <4>1, <4>2, EraseSurvives
    <3>4. CASE k = 0
      <4>1. s = EraseFirst(cache[h], 1) /\ 1 \in 1 .. Len(cache[h])
        BY <1>1, <2>2, <2>5, <3>1, <3>4
      <4>2. ~IsSessionCacheExpired(cache[h][1], now)
        BY <3>2, <3>4, <4>1
      <4>3. \A i \in 1 .. Len(cache[h]) : ~IsSessionCacheExpired(cache[h][i], now)
        BY <2>1, <4>1, <4>2, ExpiredBefore
      <4>4. ASSUME NEW i \in 1 .. Len(cache[h]), i # 1
            PROVE  Survives(h, i)
        <5>1. 1 \in 0 .. Len(cache[h]) /\ i > 1
          BY <1>1, <4>1, <4>4
        <5>2. cache' = [cache EXCEPT ![h] = Append(EraseFirst(cache[h], 1), item)]
          BY <2>3, <4>1
        <5>3. QED
          BY <1>1, <2>1, <5>1, <5>2, EraseSurvives
      <4>5. QED
        BY <4>3, <4>4
    <3>5. QED
      BY <3>3, <3>4
  <2>6. QED
    BY <1>1, <2>2, <2>4, <2>5
<1>6. ASSUME NEW w \in Worker, ReturnSession(w), h # GetHostByUrl(w, url_of[w])
      PROVE  cache'[h] = cache[h]
  BY <1>1, <1>6 DEF ReturnSession, TypeOK
<1>7. CASE \/ \E w \in Worker, u \in Url : GetUncachedSession(w, u)
           \/ \E w \in Worker : DropSession(w)
           \/ Tick \/ StepBack \/ UNCHANGED vars
  BY <1>2, <1>7 DEF GetUncachedSession, DropSession, Tick, StepBack, vars
<1>8. QED
  BY <1>2, <1>3, <1>4, <1>5, <1>6, <1>7 DEF Next

\* Making room drops at most one handle that has not expired, and none when
\* there is an expired one to drop.
THEOREM RoomCostsLittle == Spec => FreshSurvive
<1>1. IInv /\ [Next]_vars =>
        [steps_back' = 0 =>
         \A h \in Host :
            LET Fresh   == {i \in 1 .. Len(cache[h]) :
                                ~IsSessionCacheExpired(cache[h][i], now)}
                Dropped == {i \in Fresh :
                                cache[h][i].curl_holder \notin
                                    Cached(h)' \cup {holds'[w] : w \in Worker}}
            IN  Cardinality(Dropped) <= IF Cardinality(Fresh) = Len(cache[h])
                                        THEN 1 ELSE 0]_vars
  <2> SUFFICES ASSUME IInv, [Next]_vars, steps_back' = 0, NEW h \in Host
               PROVE  LET Fresh   == {i \in 1 .. Len(cache[h]) :
                                        ~IsSessionCacheExpired(cache[h][i], now)}
                          Dropped == {i \in Fresh :
                                cache[h][i].curl_holder \notin
                                    Cached(h)' \cup {holds'[w] : w \in Worker}}
                      IN  Cardinality(Dropped) <= IF Cardinality(Fresh) = Len(cache[h])
                                                  THEN 1 ELSE 0
    OBVIOUS
  <2> DEFINE Fresh   == {i \in 1 .. Len(cache[h]) :
                            ~IsSessionCacheExpired(cache[h][i], now)}
             Dropped == {i \in Fresh : ~Survives(h, i)}
  <2>1. Len(cache[h]) \in Nat
    BY DEF IInv, TypeOK
  <2>2. CASE \A i \in Fresh : Survives(h, i)
    <3>1. Dropped = {}
      BY <2>2
    <3>2. Cardinality(Dropped) = 0
      BY <3>1, FS_EmptySet
    <3>3. QED
      BY <3>2 DEF Survives
  <2>3. CASE Fresh = 1 .. Len(cache[h]) /\ \A i \in Fresh : i # 1 => Survives(h, i)
    <3>1. Cardinality(Fresh) = Len(cache[h])
      <4>1. Cardinality(1 .. Len(cache[h])) = Len(cache[h])
        BY <2>1, FS_Interval
      <4>2. QED
        BY <2>3, <4>1
    <3>2. Dropped \subseteq {1}
      BY <2>3
    <3>3. IsFiniteSet({1}) /\ Cardinality({1}) = 1
      BY FS_Singleton
    <3>4. Cardinality(Dropped) <= 1
      BY <3>2, <3>3, FS_Subset
    <3>5. QED
      BY <3>1, <3>4 DEF Survives
  <2>4. QED
    BY <2>2, <2>3, AllButOldestSurvive
<1>2. QED
  BY <1>1, IInvAlways, PTL DEF Spec, FreshSurvive
=============================================================================
