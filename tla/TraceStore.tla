----------------------------- MODULE TraceStore -----------------------------
(***************************************************************************)
(* The start time of a job's trace (store/trace-store.ts).  Every entry of *)
(* the trace carries the milliseconds since the job's start, which all     *)
(* processes read from one Redis key: the first append sets it, each       *)
(* process keeps it in a small LRU cache, and concurrent appends of one    *)
(* process share one look-up.                                              *)
(***************************************************************************)
EXTENDS Naturals, Sequences

CONSTANTS
    Processes,    (* the API and the runners                               *)
    Jobs,
    Calls,        (* append calls; each belongs to a process               *)
    ProcessOf,    (* the process of each call                              *)
    CacheLimit,   (* START_MS_CACHE_LIMIT                                  *)
    MaxTime       (* bound: look-ups, each at a later time                 *)

ASSUME ProcessAssumption == ProcessOf \in [Calls -> Processes]
ASSUME LimitAssumption   == CacheLimit \in Nat \ {0}
ASSUME TimeAssumption    == MaxTime \in Nat

VARIABLES
    clock,        (* the time of the last look-up                          *)
    key,          (* the start key of each job; 0 when there is none       *)
    cache,        (* startMsCache of each process, oldest use first        *)
    lookup,       (* startMsInflight: the look-up of a process for a job   *)
    call,         (* each append call                                      *)
    expired       (* jobs whose start key expired                          *)

vars == <<clock, key, cache, lookup, call, expired>>

-----------------------------------------------------------------------------
Times == 1..MaxTime
Entries == [job : Jobs, start : Times]

\* A look-up is about to SET NX, to GET, or to SET; "none" when there is none.
Lookups == [at : {"none", "setnx", "get", "set"}, now : 0..MaxTime]
NoLookup == [at |-> "none", now |-> 0]

\* A call waits for the look-up of its process, or writes with a start time.
CallStates == [at : {"idle", "waiting", "writing"}, job : Jobs, start : 0..MaxTime]

TypeOK ==
    /\ clock \in 0..MaxTime
    /\ key \in [Jobs -> 0..MaxTime]
    /\ cache \in [Processes -> Seq(Entries)]
    /\ lookup \in [Processes -> [Jobs -> Lookups]]
    /\ call \in [Calls -> CallStates]
    /\ expired \subseteq Jobs

Init ==
    /\ clock = 0
    /\ key = [j \in Jobs |-> 0]
    /\ cache = [p \in Processes |-> <<>>]
    /\ lookup = [p \in Processes |-> [j \in Jobs |-> NoLookup]]
    /\ call \in [Calls -> [at : {"idle"}, job : Jobs, start : {0}]]
    /\ expired = {}

-----------------------------------------------------------------------------
(* The cache: a Map, whose insertion order is the order of use.            *)

IsCached(entries, j) == \E i \in 1..Len(entries) : entries[i].job = j
Position(entries, j) == CHOOSE i \in 1..Len(entries) : entries[i].job = j
CachedStart(entries, j) == entries[Position(entries, j)].start

Forget(entries, j) ==
    IF IsCached(entries, j)
    THEN [i \in 1..(Len(entries) - 1) |->
             IF i < Position(entries, j) THEN entries[i] ELSE entries[i + 1]]
    ELSE entries

\* Variant: an entry is never evicted.
RememberAll(entries, j, start) == Append(Forget(entries, j), [job |-> j, start |-> start])

\* rememberStartMs: the entry becomes the youngest, the oldest makes room.
Remember(entries, j, start) ==
    LET moved == Append(Forget(entries, j), [job |-> j, start |-> start])
    IN IF Len(moved) > CacheLimit THEN Tail(moved) ELSE moved

-----------------------------------------------------------------------------
(* append                                                                  *)

Write(c, j, start) == call' = [call EXCEPT ![c] = [at |-> "writing", job |-> j, start |-> start]]
Wait(c, j) == call' = [call EXCEPT ![c] = [at |-> "waiting", job |-> j, start |-> 0]]

\* The start time is cached: the entry becomes the youngest.
AppendCached(c, j) ==
    LET entries == cache[ProcessOf[c]] IN
        /\ call[c].at = "idle"
        /\ IsCached(entries, j)
        /\ Write(c, j, CachedStart(entries, j))
        /\ cache' = [cache EXCEPT ![ProcessOf[c]] = Remember(@, j, CachedStart(entries, j))]
        /\ UNCHANGED <<clock, key, lookup, expired>>

\* Another call of the process is looking it up.
AppendJoins(c, j) ==
    /\ call[c].at = "idle"
    /\ ~IsCached(cache[ProcessOf[c]], j)
    /\ lookup[ProcessOf[c]][j].at # "none"
    /\ Wait(c, j)
    /\ UNCHANGED <<clock, key, cache, lookup, expired>>

\* The call begins a look-up, with the time of now.
AppendLooksUp(c, j) ==
    /\ call[c].at = "idle"
    /\ ~IsCached(cache[ProcessOf[c]], j)
    /\ lookup[ProcessOf[c]][j].at = "none"
    /\ clock < MaxTime
    /\ clock' = clock + 1
    /\ lookup' = [lookup EXCEPT ![ProcessOf[c]][j] = [at |-> "setnx", now |-> clock']]
    /\ Wait(c, j)
    /\ UNCHANGED <<key, cache, expired>>

\* The look-up has the start time: it is cached and all waiting calls go on.
Settle(p, j, start) ==
    /\ cache' = [cache EXCEPT ![p] = Remember(@, j, start)]
    /\ lookup' = [lookup EXCEPT ![p][j] = NoLookup]
    /\ call' = [c \in Calls |->
                   IF ProcessOf[c] = p /\ call[c].at = "waiting" /\ call[c].job = j
                   THEN [at |-> "writing", job |-> j, start |-> start]
                   ELSE call[c]]

\* Variant: SET without NX.
SetAnyway(p, j) ==
    /\ lookup[p][j].at = "setnx"
    /\ key' = [key EXCEPT ![j] = lookup[p][j].now]
    /\ Settle(p, j, lookup[p][j].now)
    /\ UNCHANGED <<clock, expired>>

\* SET NX: the first look-up of all processes sets the key.
SetFirst(p, j) ==
    /\ lookup[p][j].at = "setnx"
    /\ key[j] = 0
    /\ key' = [key EXCEPT ![j] = lookup[p][j].now]
    /\ Settle(p, j, lookup[p][j].now)
    /\ UNCHANGED <<clock, expired>>

SetRefused(p, j) ==
    /\ lookup[p][j].at = "setnx"
    /\ key[j] # 0
    /\ lookup' = [lookup EXCEPT ![p][j] = [at |-> "get", now |-> @.now]]
    /\ UNCHANGED <<clock, key, cache, call, expired>>

\* GET: the key may have expired since.
GetFound(p, j) ==
    /\ lookup[p][j].at = "get"
    /\ key[j] # 0
    /\ Settle(p, j, key[j])
    /\ UNCHANGED <<clock, key, expired>>

\* Variant: ... and is waited for.
GetNothingPolls(p, j) ==
    /\ lookup[p][j].at = "get"
    /\ key[j] = 0
    /\ UNCHANGED vars

GetNothing(p, j) ==
    /\ lookup[p][j].at = "get"
    /\ key[j] = 0
    /\ lookup' = [lookup EXCEPT ![p][j] = [at |-> "set", now |-> @.now]]
    /\ UNCHANGED <<clock, key, cache, call, expired>>

\* SET, whatever another process may have set meanwhile.
SetAgain(p, j) ==
    /\ lookup[p][j].at = "set"
    /\ key' = [key EXCEPT ![j] = lookup[p][j].now]
    /\ Settle(p, j, lookup[p][j].now)
    /\ UNCHANGED <<clock, expired>>

LookupStep(p, j) ==
    SetFirst(p, j) \/ SetRefused(p, j) \/ GetFound(p, j) \/ GetNothing(p, j) \/ SetAgain(p, j)

\* The command that is not answered may have written the key: a SET NX of a
\* missing key, or a SET.
Unanswered(p, j) ==
    \/ lookup[p][j].at = "setnx" /\ key[j] = 0
    \/ lookup[p][j].at = "set"

\* A command of the look-up fails, done or not: every waiting call fails with it,
\* and the next append begins anew.
LookupFails(p, j) ==
    /\ lookup[p][j].at # "none"
    /\ \/ UNCHANGED key
       \/ Unanswered(p, j) /\ key' = [key EXCEPT ![j] = lookup[p][j].now]
    /\ lookup' = [lookup EXCEPT ![p][j] = NoLookup]
    /\ call' = [c \in Calls |->
                   IF ProcessOf[c] = p /\ call[c].at = "waiting" /\ call[c].job = j
                   THEN [call[c] EXCEPT !.at = "idle"] ELSE call[c]]
    /\ UNCHANGED <<clock, cache, expired>>

\* The pipeline: RPUSH with elapsed_ms, and EXPIRE of list and key.
WriteEntry(c) ==
    /\ call[c].at = "writing"
    /\ call' = [call EXCEPT ![c] = [at |-> "idle", job |-> @.job, start |-> 0]]
    /\ UNCHANGED <<clock, key, cache, lookup, expired>>

\* The key's time to live is over.
Expire(j) ==
    /\ key[j] # 0
    /\ key' = [key EXCEPT ![j] = 0]
    /\ expired' = expired \cup {j}
    /\ UNCHANGED <<clock, cache, lookup, call>>

\* A process starts anew, with empty maps.
Restart(p) ==
    /\ cache' = [cache EXCEPT ![p] = <<>>]
    /\ lookup' = [lookup EXCEPT ![p] = [j \in Jobs |-> NoLookup]]
    /\ call' = [c \in Calls |-> IF ProcessOf[c] = p
                                THEN [at |-> "idle", job |-> call[c].job, start |-> 0] ELSE call[c]]
    /\ UNCHANGED <<clock, key, expired>>

-----------------------------------------------------------------------------
AppendStep(c, j) == AppendCached(c, j) \/ AppendJoins(c, j) \/ AppendLooksUp(c, j)

Next ==
    \/ \E c \in Calls : WriteEntry(c) \/ \E j \in Jobs : AppendStep(c, j)
    \/ \E p \in Processes : Restart(p) \/ \E j \in Jobs : LookupStep(p, j) \/ LookupFails(p, j)
    \/ \E j \in Jobs : Expire(j)

Spec == Init /\ [][Next]_vars

\* Redis answers, or the command fails, and nobody waits for anything else.
Fairness == \A p \in Processes, j \in Jobs : WF_vars(LookupStep(p, j))

FairSpec == Spec /\ Fairness

-----------------------------------------------------------------------------
(* Properties.                                                             *)

\* As long as a job's start key has never expired, every start time in use is
\* that of the key: cached in any process, or about to be written in an entry.
\* So the elapsed times of a job's entries are comparable, whoever wrote them
\* and however look-ups, evictions and restarts interleaved.
StartsAgree ==
    \A j \in Jobs \ expired :
        /\ \A p \in Processes : \A i \in 1..Len(cache[p]) :
               cache[p][i].job = j => cache[p][i].start = key[j]
        /\ \A c \in Calls : call[c].at = "writing" /\ call[c].job = j => call[c].start = key[j]

\* The cache is bounded and holds a job once, in the face of concurrent look-ups
\* of one process for several jobs.
CacheIsBounded ==
    \A p \in Processes :
        /\ Len(cache[p]) <= CacheLimit
        /\ \A i, k \in 1..Len(cache[p]) : cache[p][i].job = cache[p][k].job => i = k

\* A call waits only while there is a look-up whose end it will be told of.
NobodyWaitsInVain ==
    \A c \in Calls : call[c].at = "waiting" => lookup[ProcessOf[c]][call[c].job].at # "none"

\* Every append gets its start time or fails.
AppendsGoOn == \A c \in Calls : call[c].at = "waiting" ~> call[c].at # "waiting"
=============================================================================
