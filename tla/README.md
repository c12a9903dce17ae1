# AmxxEasyHttp in TLA+

AmxxEasyHttp is an AMX Mod X module: plugins of a Half-Life server call natives
to send HTTP and FTP requests, worker threads perform the transfers, and the
server's frame hook delivers the results to plugin callbacks. This directory
holds TLA+ models of the parts that carry the module's own logic, the TLC runs
that check them on small instances, and proofs that TLAPS checks for every
instance. Paths below are relative to the repository (`src/module.cpp` is the
file of that name in the repository's `src/`).

## Inventory

| Component | State | Operations | Interacts with |
|---|---|---|---|
| Request engine, `src/easy_http/EasyHttp.cpp` | pending and completed deques (a mutex each), condition variable, worker threads, list of active `RequestControl`s, stop flag | `SendRequest`, `RunFrame`, `CancelAllRequests`, `ForgetAllRequests`, destructor, `WorkerLoop` | owned by the module object; workers use the session cache; `on_complete` re-enters the module |
| Session cache, `src/easy_http/session_cache/`, `UrlUtils.cpp`, `DateTimeService.cpp` | per host a vector of idle curl handles with the time of last use; a thread-local URL parser | `GetSession`, `ReturnSession` | shared by the workers of one engine |
| Handle tables, `src/utils/ContainerWithHandles.h` | a hash map from handles to values, a hash set of free handles | `Add`, `Remove`, `GetFreeHandle` | requests, options and queues of the module object |
| Module object and hooks, `src/EasyHttpModule.cpp`, `src/module.cpp` | options, requests and queues tables, two engines per queue, engines set aside | natives; `StartFrame`, `ServerDeactivate`, `OnAmxxDetach`, `GameShutdown` | plugins, the engines |
| File transfers, `EasyHttp.cpp` | local files, the curl options of a borrowed handle | `SendHttpRequest`, `FtpUpload`, `FtpDownloadSingle`, `FtpDownloadWildcard` and their callbacks | curl; run by the engine's workers between `GetSession` and `ReturnSession` |
| Progress, `src/easy_http/RequestControl.h` | four atomics | `SetProgress`, `GetProgress` | worker and main thread |
| JSON manager, `src/json/` on `dep/parson` | handles to parson values, a queue of freed handles; the values form trees | `ezjson_*` natives, `FreeAllHandles` | `ServerDeactivate` frees all handles |
| Auto-update, `module.cpp` | the module's binary on disk, `.new`, `.old` | `HandleAutoUpdate`, called by `OnAmxxAttach` | file system; a plugin downloads `.new` |
| Pure functions, `src/utils/ftp_utils.cpp`, `ezhttp_steam_to_steam64` | none | FTP URLs, Steam ids | natives |

What is hard here: several worker threads and the main thread share two queues
and three flags per request; callbacks run plugin code in the middle of
`RunFrame`, of the engine's destructor and of the loop that resets the queues;
there is no default timeout, so a stalled peer occupies a worker until somebody
cancels; a map change must interrupt some requests and silence others; handles
and options objects are reused; a curl handle keeps the options and
settings of a request when it goes back to the cache; transfers create files that a failure or a cancel at any moment must
take back; the updater may crash between two renames. `hazards` in PROJECT.json lists each place with
the property that watches it.

What makes each component correct:

* engine: no request lost or duplicated, at most one callback, none after a
  forget; requests served in order; no lost wake-up; no lost cancel; the
  destructor returns, and owes nothing then;
* cache: a curl handle is in one place; the limit per host holds; only handles
  that are fresh are reused;
* tables: a live handle is never given out again, no entry is overwritten;
* module object: a request keeps its table entry until its callback is over, no
  engine with requests is dropped, forgotten requests stay silent, no ordinary
  request survives a map change, and the map change ends;
* JSON manager: values form trees, each tree is freed by exactly one handle, and
  a map change frees them all;
* file transfers: a reported success has its files complete on disk, a failure or
  a cancel leaves none, and a transfer runs with its own options;
* auto-update: a binary that loads, or its backup, survives every failure and
  crash, and the server does not restart for ever.

## Modules

| Module | Models | Checked by | Proved in |
|---|---|---|---|
| `ContainerWithHandles` | `ContainerWithHandles.h` | `container` | `ContainerWithHandlesProofs` |
| `CprSessionCache` (`MCCprSessionCache`) | `CprSessionCache.cpp`, `UrlUtils.cpp` | `cache` | `CprSessionCacheProofs` |
| `RequestLifecycle` | what `EasyHttpInterface` promises | abstract | |
| `EasyHttp` (`MCEasyHttp`) | `EasyHttp.cpp`, `RequestControl.h` | `engine` | `EasyHttpProofs`, `EasyHttpCancelProofs` |
| `EasyHttpModule` | `EasyHttpModule.cpp`, hooks and natives of `module.cpp` | `module`, `module_*` | `EasyHttpModuleProofs` |
| `JsonMngr` (`MCJsonMngr`) | `JsonMngr.cpp`, `JsonNatives.cpp`, the calls of parson they make | `json`, `json_shared_root` | `JsonMngrProofs` |
| `FileTransfer` (`MCFileTransfer`) | the transfer functions and callbacks of `EasyHttp.cpp` | `transfer`, `transfer_reuse` | `FileTransferProofs` |
| `AutoUpdate` | `HandleAutoUpdate` of `module.cpp` | `update` | `AutoUpdateProofs` |

### ContainerWithHandles

`values` and `free_handles` are the two hash tables. `AddReused` and `AddNew`
are the two branches of `GetFreeHandle` followed by `insert_or_assign`; which
free handle is reused is up to the hash set. `RemoveIterator` and `EraseReturns`
split the removal by iterator, because erasing a queue destroys engines whose
callbacks call `Add` and `Remove` of the same table before `erase` has returned;
`Sizes` says that `size()` may or may not count the node meanwhile.

### CprSessionCache

One action per critical section of `mutex_`. `GetSession` is three actions (cache
off, nothing reusable, newest item reusable), `ReturnSession` two.
`FreeSpaceForSession` returns a set of results: `lower_bound` over a vector that
is not partitioned may end at several places, and the vector is not partitioned
once the system clock has been stepped back (`StepBack`). URLs are hosts, a
relative URL, which curl resolves against the URL the thread parsed before
(`curl_url`), and a malformed one. curl itself is external.

### EasyHttp and RequestLifecycle

The main thread is a small program counter `mpc` (idle, notifying, popping,
inside a callback, the stages of the destructor), each worker one of its own
(`wpc`): waiting on the condition variable, holding a request at each of the
checkpoints where the code reads the `canceled` flag, in the transfer, posting.
One action per critical section, per read of an atomic and per blocking call.
Requests are numbered in order of sending; `completed`, `forgotten`, `canceled`
are the flags as sets; `called` is a log of callbacks. `Method`, `InvalidUrl`
and `Stalled` say which request does what: a request of `InvalidUrl` may find that
its URL has no host, and a stalled transfer returns only when it is cancelled. What
a transfer does to files is in `FileTransfer`; here opening one may fail.

`RequestLifecycle` is the interface's promise without threads: a request sent is
called back once, or dropped silently if it was forgotten, and a destroyed engine
owes nothing. `EasyHttp` implements it under the mapping `lifecycle_status`,
`lifecycle_engine`.

### EasyHttpModule

Uses engines as `RequestLifecycle` lets it: a request is queued, running, posted,
and called or dropped. `phase` is where the main thread is: between frames
(`play`), in `RunFrame` (`frame`), in the frames of `ServerDeactivate` (`drain`),
in `ResetMainAndRemoveUsersQueues` (`reset`, `forget`, `remove`), in the
destructor's loop (`cleanup`). `current` is the request whose callback runs on
top of that; while it runs, every native is enabled. `dying` is the engine whose
destructor runs. A request records the map it was sent on and whether it was sent
by a callback of the map change itself (`late`).

### JsonMngr

`heap` is parson's memory: for each allocated value its kind, its parent and its
items (by position in an array, by name in an object). `SetItems` is what append,
replace, set, remove and clear have in common: items that leave the container are
freed with everything below them, items that enter it get their parent.
`m_Handles` and `m_OldHandles` are the table and the queue of freed handles;
`MakeHandle` takes the oldest freed handle or extends the table. `Offer` is the
beginning of the three natives that insert a value (copy a value that has a
parent, else clear `m_bMustBeFreed`), before parson has accepted anything;
`Offered` is their end. `lost` records the values parson then refused. Each
native is one step, as all of them run on the main thread; natives that only read
are not actions. Assumed of plugins: they use the handle of a value that has been
freed with its tree only to free the handle (the code cannot tell, `IsValidHandle`
looks at the table alone), and they do not put a value inside itself.

### FileTransfer

Each request has a worker of its own and a label: preparing, file opened, in
`curl_easy_perform`, closing, deciding, removing files, returning its session. The
actions are the steps between two reads of the `canceled` flag or two changes of
the file system, so that two transfers on one path, and a cancel, interleave with
all of them. A file is a few pieces, each marked with the transfer that wrote it;
`OpenTruncated` empties it, `Write` is the write callback with the stream's
buffer, `CloseStream` the unchecked `close()`. A removed file that is still open
lives on without a name (`linked`), as on POSIX systems. A wildcard download walks
its listing with `ChunkSkip`, `ChunkBegin` and `ChunkEnd`. `home` and `idle` stand
for the session cache, whose choice of a handle is `CprSessionCache`'s.

`options` is what is set on a curl handle, and it stays there when the handle goes
back to the cache. `SetSession` is `SetSessionCommonOptions` and the head of
`SendHttpRequest`: the settings that the request's `RequestOptions` hold (`asks` of
a job) are put on the session before any other check of the flag, so that a request
that fails or is cancelled later leaves them too, and nothing takes them off.
`SetOptions` is what a transfer sets when it starts: the `curl_easy_setopt` calls of
the FTP functions, among them `CURLOPT_SSL_VERIFYPEER` switched off for
`require_secure`. Only a Linux build switches the check on again for every session
(`SetSslOptions`), hence the constant `Linux`. Of a setting only its presence is kept:
a request that holds one replaces the value.

External, and modelled from how the code uses it: curl reports success when
everything was received, whatever the HTTP status, and does what the handle's
options say; cpr's HTTP verbs set the method, which clears `CURLOPT_UPLOAD`.
Which settings cpr keeps in its session object and which on the curl handle is cpr's
matter: all are taken to stay, so what cpr forgets can only make `OwnOptions` easier.
The method that an HTTP verb leaves on a handle is not modelled. `Seen` says which
options matter to a transfer: FTP does not look at the parts of an HTTP message, HTTP
not at `CURLOPT_USE_SSL` and `CURLOPT_FTP_CREATE_MISSING_DIRS`.
Removing a file just created does not fail, and directories that were created
stay.

`disturbed` and `unflushed` are history variables. `SuccessMeansComplete` excepts
with them what the code does not protect: a path that another transfer uses at the
same time or later, and a file whose last write fails inside `close()`.

### AutoUpdate

One action per change of the file system in `HandleAutoUpdate`. Each may fail, and
`Stop` (quit, shutdown or crash) is possible between any two. A file holds a binary
that `dlopen` accepts, named by its version, or something that it does not accept,
or is absent. `Download` and `Downloaded` are a plugin that fetches `.new`, which
does not load until it is complete; without its binary the module is not loaded,
until an operator puts one back (`Reinstall`). `downloads` and `quits` count.

## Runs

| Run | Shows | Bounds |
|---|---|---|
| `container` | `TypeOK`, `FreeHandlesUnused`, `NoOverwrite` | 4 entries, 2 values: gaps, reuse and an `Add` inside a destructor all happen |
| `cache` | `TypeOK`, `Exclusive`, `WithinLimit`, `ReturnFindsHost`, `NewestLast`, `FreshHandout`, `FreshSurvive` | 3 workers, 2 hosts, 5 handles, limit 0 or 2, times 0..4, one step back: the limit is reached with all, some and none expired |
| `engine` | `TypeOK`, `InOnePlace`, `ActiveTracked`, `CalledOnce`, `DestroyedClean`, `FirstComeFirstServed`, `ImplementsLifecycle`, `CancelledBeforeDispatch`, `CancelNotLost`, `EverySentCompletes`, `DestroyEnds` | 2 workers, 3 requests (FTP, download, one whose URL may be invalid), the first two stalled, 2 results per frame: more requests than workers and than a frame delivers, and both workers can be blocked with a request waiting |
| `module` | `TypeOK`, `EntriesMatch`, `EveryEngineServed`, `ForgottenSilent`, `OldRequestsInterrupted`, `MapChangeEnds` | 2 requests, 2 options objects, main and one user queue, 2 engines, 2 maps: one request outstanding at a map change and one sent by its callback |
| `module_options` | `OptionsOutliveRequest` fails | as above, one map |
| `module_old_map` | `CallbackOnItsMap` fails | as above, one options object |
| `module_unload` | `NeverCrashes` fails | one request |
| `json` | `TypeOK`, `FreeListExact`, `Forest`, `ParsonFreesChildren`, `OwnedOnce`, `MapChangeFreesAll` | 4 values, 3 handles, arrays of 2, 2 names, names with one dot: trees three deep, copies of trees, handles that outlive their value, failed inserts |
| `json_shared_root` | `ParsonFreesChildren` fails | 3 values, `SharedRoots` |
| `transfer` | `TypeOK`, `SuccessMeansComplete`, `FailureLeavesNothing`, `OwnOptions` | 2 requests, each of any of five kinds, 2 paths, 2 pieces per file, 2 handles, a Linux build, uploads and secure transfers on a host of their own, with an HTTP job that must find the certificate check on again, the other jobs on a host where all hold a timeout and HTTP a user agent: transfers share a path and a handle, and a wildcard download fails after its first file |
| `transfer_reuse` | `OwnOptions` fails | an upload and a download on one host |
| `update` | `TypeOK`, `BinarySurvives`, `NoRebootLoop` | 3 downloads: an update on top of the leavings of a failed one |

Symmetry is used for curl handles, JSON values and the workers of the cache, in
runs without liveness.

### Fairness

`engine`: every worker is scheduled (`WF` on `WorkerStep`), and the main
thread goes on (`WF` on `MainStep`): `StartFrame` runs on every server frame and
a callback returns, because AMX executes plugin code to its end. Nothing is
assumed of plugins, of spurious wake-ups, or of peers: `Transfer` is not enabled
for a stalled, uncancelled request. `module`: the main thread goes on, queued
requests are started, and a cancelled transfer ends; an uncancelled one need not.

## Findings

The five runs that expect a violation:

* `module_options`: `EasyHttpModule.h:35` says that a request's `options_id` is
  valid as long as the request exists. `on_complete` deletes the options with the
  first of the requests that share them, and a plugin may destroy them earlier.
  A second completion then deletes whatever options object got the handle.
* `module_old_map`: the comment in `ServerDeactivate` wants no callback to fire
  into the plugins of a map that is over. A callback that runs in the destructor
  of the old main engine sends to the new one, and that request is called back on
  the next map.
* `module_unload`: `unique_ptr::reset` has already cleared `g_EasyHttpModule` when
  the destructor calls back, and `on_complete` goes through that pointer.
* `json_shared_root`: inserting a root clears `m_bMustBeFreed` of the handle that
  was passed. `ezjson_get_parent` gives a second handle to a root; inserting the
  root through that one leaves the flag of the first set, so the value is freed
  by the first handle and again with its new container.
* `transfer_reuse`: `FtpUpload` sets `CURLOPT_UPLOAD` (and `CURLOPT_USE_SSL`) on a
  handle that goes to the cache as it is. An FTP download from the same host that
  gets this handle does not clear them, so `curl_easy_perform` uploads, while
  `easy_http.inc:668` says that the native downloads a file. The wildcard download
  does take its options off again, which `OwnOptions` confirms in `transfer`. The
  same happens to every setting that only one of two requests to a host holds: a
  timeout, a login or a user agent set for the first is there for the second too, if
  cpr keeps it on the handle; no doc says otherwise, so no run is devoted to it.

More facts are visible in properties that hold. `NewestLast` (the comment in
`CprSessionCache.cpp:41`) is stated for a clock that was never stepped back and
fails otherwise: the stamps are system clock times. `MapChangeEnds` has to except
a request sent, by a callback of the map change, to the user queue whose engine
is being destroyed: the re-created engine is destroyed without a cancel, and the
main thread waits for the transfer. `OwnedOnce` has to except values (`lost`) that
an insert gave up although parson refused them (an index past the end, a dotted
name through something that is not an object): nothing frees them any more.
`SuccessMeansComplete` has to except files whose buffered end is lost in `close()`:
the transfer is reported as a success although the file is short.
`BinarySurvives` allows the binary to be missing: after a crash between the two
renames the server starts without the module, and nothing but an operator moves
`.old` back.

Read in the code and not checked here: requests of one queue with different end
behaviours use two engines and so two threads, although `easy_http.inc:293`
promises sequential execution; the FTP natives return 0 where `easy_http.inc`
promises the request handle, so plugins cannot cancel FTP transfers (a map change
can); and `ezhttp_download_url` rejects the null options handle that the other
natives replace by a new options object.

## Proofs

Everything below is checked by TLAPS without further assumptions than the
ASSUMEs of the modules (bounds are naturals, at least one worker, a finite pool,
`kMaxTasksExecPerFrame` positive, requests have a method; a single transfer names
one file; an array has room for an item; the values that stand for "none" are no
hosts, handles, jobs, files, JSON values or table entries). Two theorems about file
transfers, those about JSON and `QueueIsSequential` (one worker) have a hypothesis,
explained there.

* `ContainerWithHandlesProofs`: `TypeCorrect`, `FreeHandlesAreUnused`,
  `NeverOverwrites`. The inductive invariant is the type invariant with
  `FreeHandlesUnused`. That handles in use are contiguous is not invariant, since
  an `Add` inside a destructor leaves gaps, so the argument for new handles rests on
  the search loop: lemma `FirstUnused` shows that it ends, at an unused handle,
  because a finite set cannot contain an interval with more elements than it has.
* `EasyHttpProofs`: `TypeCorrect`, `NoRequestLost`, `ActiveCountSound`,
  `OneCallback`, `DestructorDrains`, `EngineImplementsLifecycle`, for any number of
  workers and requests. The inductive invariant `IInv` conjoins `TypeOK`,
  `InOnePlace`, `CalledOnce` and three strengthenings: `WorkerShape` (a worker has
  a request exactly at the labels where it is busy), `MainShape` (what the stages
  of the destructor know: after the join no worker runs and nothing is pending)
  and `Tracked` (what `requests_` is at each label of the main thread). The
  refinement proof maps `SendRequest`, `RunFrameTask`, `ForgetAllRequests` and the
  last `RunFrameSweep` to steps of `RequestLifecycle` and every other step to a
  stutter.
* `AutoUpdateProofs`: `TypeCorrect`, `BinaryAlwaysSurvives`, `RestartsBounded`, for
  any number of downloads. `BinarySurvives` is inductive only with `UpdateShape`,
  what the updater knows at each label (between the renames the binary is absent
  and `.old` is the loaded version; from the dry run on `.new` loads), and
  `NoRebootLoop` only with `Owed`: a `.new` file, or a quit about to be ordered,
  stands for a download that no quit has used up yet.

* `EasyHttpCancelProofs`, on top of `EasyHttpProofs`: `ServedInOrder`,
  `QueueIsSequential`, `CancelStopsPending`, `CancelIsKept`. That requests are taken in
  the order of sending is an invariant, given that every request is in one place.
  That one which completes has overtaken fewer than there are workers needs more:
  `FewOvertaken` bounds, for every response waiting in `completed_requests_`, the
  earlier requests that a worker still has or that were posted behind it. A response
  just posted has overtaken at most what the other workers have (`OthersFew`, by
  cardinality), and afterwards those requests only move from a worker to the queue
  behind it. With one worker none is overtaken, and `QueueIsSequential` follows:
  callbacks come in the order of sending, each after every earlier request is
  completed. It is about one engine, created with one thread for a user queue
  (`GetEasyHttp`), so it is about the requests of a queue that share a
  `PluginEndBehaviour`. The last two theorems speak of two moments, `[](Q => []R)`.
  For each there is a predicate on states that `Q` establishes, every step keeps and
  `R` follows from: `Stopped` (the request is cancelled, and a worker that has it is
  before the first check of the flag or has its answer) and `Kept` (it is cancelled,
  and before the last check or answered with neither `OK` nor `FAILED`). `WorkerMoves`
  sorts a worker's steps by what they do to its request, `MainSteps` says what no step
  of the main thread does.
* `CprSessionCacheProofs`: `TypeCorrect`, `HandlesExclusive`, `LimitKept`,
  `HostFoundOnReturn`, `NewestIsLast`, `HandoutsFresh`, `RoomCostsLittle`, for any
  number of workers, hosts and handles, every limit, and (but for the two properties
  that say so) every behaviour of the clock. Whatever `lower_bound` finds, each
  operation leaves a run of consecutive items of a vector, a slice, and only
  `ReturnSession` appends: that alone keeps handles apart and the limit. The
  invariant adds `HeldHost` (which URL a held session can have been created for) and
  `Ordered` (vectors are sorted by time of use while the clock was not stepped back).
* `EasyHttpModuleProofs`: `TypeCorrect`, `RequestsOwnEntries`, `NoEngineLost`,
  `ForgottenNeverCalls`, `MapChangeInterrupts`, for any number of requests, queues,
  engines and maps. The loop of the map change removes queues while the callbacks it
  runs create queues and send requests, so the invariant says what the loop relies
  on: an engine is in one place (`EnginesApart`), what was set aside is forgotten
  (`SetAside`), callbacks run only in a frame or a destructor (`LoopShape`, which is
  why nothing can fill a queue between `ForgetQueue` and `RemoveQueue`), and every
  request of the old map that can still call back is ahead of the loop
  (`LoopCovers`). `TablesOK` bounds the handles in use, as `GetFreeHandle` needs.
* `FileTransferProofs`: `TypeCorrect`, `NothingLeftBehind`, `OptionsFit`,
  `SuccessIsComplete`, for any requests, paths, jobs and file lengths. Three layers:
  `FileInv` (where a worker can have a file open, and that whoever truncated a file
  last still lists it among what it created) gives `FailureLeavesNothing`. `HandleInv`
  says who holds a handle, that what is set on it was asked for by some job of its host
  (`Residue`), and what the session itself has set and reset by then (`SessionOK`); it
  holds for all jobs. `WriteInv` (a file nobody disturbed has no other user at work, and
  each piece received is on disk or in the stream's buffer) gives `SuccessMeansComplete`.
  `OptionsFit` needs the hypothesis `SeparateUse(Job)`: what a job leaves on a handle,
  every job of the same host asks for too, resets or has no use for. That is, the jobs of
  a host hold the same timeouts, its HTTP jobs the same settings, its FTP jobs the same
  `require_secure`; FTP uploads share no host with FTP downloads; a proxy or a login
  asked for over HTTP keeps FTP off the host, and outside Linux `require_secure` keeps
  HTTP off it. Without it the claim is false: the code resets nothing else.
  `SuccessIsComplete` needs the part about uploads only (`UploadsApart(Job)`), because
  curl with a stale `CURLOPT_UPLOAD` reports success for a download that received
  nothing. The jobs of the run `transfer` satisfy both, those of `transfer_reuse`, where
  `OwnOptions` fails, neither (`JobSets` in `MCFileTransfer`).
  `NothingLeftBehind` needs neither.

* `JsonMngrProofs`: `TypeCorrect`, `FreeListKept`, `MemoryIsForest`,
  `HandlesFreeRoots`, `RootsOwnedOnce`, `MapChangeLeavesLost`, for any values, names
  and bounds, under the hypothesis `~SharedRoots` (a plugin does not insert a root
  through a handle while another handle frees it; the run `json` has it, and without
  it `json_shared_root` refutes `ParsonFreesChildren`). `Tree` is the least closed set,
  which takes the place of induction over depth: to show that a value is in a tree, or
  that a tree is within a set, name a set and show it closed. `Forest` alone does not
  exclude a cycle of containers, and `MapChangeFreesAll` would fail for one, so `Good`
  adds `Rooted`: every value is in the tree of a root. `SetItemsDone` and
  `SetItemsGood`, `CopyGood`, `InitGood` and `FreeGood` show that each operation of
  parson keeps a memory `Good`. On top of that `Owned(H, t, l)` relates memory `H`,
  table `t` and the ownerless roots `l`: what has an owner is a root, a root has at
  most one, and the roots without are those in `l`. A native goes through several such
  triples (a copy or a new value is ownerless, then in a container or given a handle),
  and at its end `l` is `lost`. `Listed` is `FreeListExact` with the list's elements
  distinct.

Only model-checked: the liveness properties (`EverySentCompletes`, `DestroyEnds`,
`MapChangeEnds`), which rest on fairness and are out of the prover's reach. Every
other property of a passing run is a theorem.

## Not modelled

Contents of requests and responses; option setters and response getters that
neither change nor depend on the modelled state; logging; the SDK and vendored
libraries, which are nearly all of the repository's lines. Progress reporting: four
atomics that only a plugin's display reads, of which no doc promises a consistent
snapshot. The FTP URL functions and the Steam id conversion are pure functions on
strings without state or failure paths of their own.
