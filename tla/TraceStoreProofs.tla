-------------------------- MODULE TraceStoreProofs --------------------------
(***************************************************************************)
(* Proofs about TraceStore, for every set of processes, jobs and calls and *)
(* every cache limit.                                                      *)
(***************************************************************************)
EXTENDS TraceStore, TLAPS

\* A look-up that found the key taken sets it only after it expired.
LookupsWait ==
    \A p \in Processes, j \in Jobs :
        /\ lookup[p][j].at # "none" => lookup[p][j].now \in Times
        /\ lookup[p][j].at = "get" => key[j] # 0 \/ j \in expired
        /\ lookup[p][j].at = "set" => j \in expired

WritersHaveStart == \A c \in Calls : call[c].at = "writing" => call[c].start \in Times

TraceInv ==
    /\ TypeOK /\ StartsAgree /\ CacheIsBounded /\ NobodyWaitsInVain
    /\ LookupsWait /\ WritersHaveStart

-----------------------------------------------------------------------------
(* The cache of one process.                                               *)

\* Every entry is that of a job other than j, and one of the given entries.
OthersOnly(es, entries, j) ==
    \A k \in 1..Len(es) : es[k].job # j /\ \E i \in 1..Len(entries) : es[k] = entries[i]

JobsOnce(entries) == \A i, k \in 1..Len(entries) : entries[i].job = entries[k].job => i = k

LEMMA PositionFound ==
    ASSUME NEW entries, NEW j, IsCached(entries, j)
    PROVE  Position(entries, j) \in 1..Len(entries) /\ entries[Position(entries, j)].job = j
BY DEF IsCached, Position

LEMMA ForgetEntries ==
    ASSUME NEW entries \in Seq(Entries), NEW j \in Jobs, JobsOnce(entries)
    PROVE  /\ Forget(entries, j) \in Seq(Entries)
           /\ Len(Forget(entries, j)) <= Len(entries)
           /\ OthersOnly(Forget(entries, j), entries, j)
           /\ JobsOnce(Forget(entries, j))
<1> DEFINE es == Forget(entries, j)
           q == Position(entries, j)
<1>1. CASE ~IsCached(entries, j)
  <2>1. es = entries BY <1>1 DEF Forget
  <2> QED BY <1>1, <2>1 DEF IsCached, OthersOnly, JobsOnce
<1>2. CASE IsCached(entries, j)
  <2>1. q \in 1..Len(entries) /\ entries[q].job = j BY <1>2, PositionFound
  <2>2. es = [i \in 1..(Len(entries) - 1) |-> IF i < q THEN entries[i] ELSE entries[i + 1]]
    BY <1>2 DEF Forget
  <2> HIDE DEF es, q
  <2>3. \A i \in 1..(Len(entries) - 1) :
            (IF i < q THEN i ELSE i + 1) \in 1..Len(entries)
    BY <2>1
  <2>4. es \in Seq(Entries) /\ Len(es) = Len(entries) - 1
    BY <2>1, <2>2, <2>3
  <2>5. \A i \in 1..Len(es) : es[i] = entries[IF i < q THEN i ELSE i + 1]
    BY <2>2, <2>4
  <2>6. OthersOnly(es, entries, j)
    <3> SUFFICES ASSUME NEW k \in 1..Len(es)
                 PROVE  es[k].job # j /\ \E i \in 1..Len(entries) : es[k] = entries[i]
      BY DEF OthersOnly
    <3> DEFINE i == IF k < q THEN k ELSE k + 1
    <3>1. i \in 1..Len(entries) /\ i # q BY <2>1, <2>4
    <3>2. es[k] = entries[i] BY <2>5
    <3> QED BY <2>1, <3>1, <3>2 DEF JobsOnce
  <2>7. JobsOnce(es)
    <3> SUFFICES ASSUME NEW k \in 1..Len(es), NEW m \in 1..Len(es), es[k].job = es[m].job
                 PROVE  k = m
      BY DEF JobsOnce
    <3> DEFINE i == IF k < q THEN k ELSE k + 1
               n == IF m < q THEN m ELSE m + 1
    <3>1. i \in 1..Len(entries) /\ n \in 1..Len(entries) BY <2>1, <2>4
    <3>2. es[k] = entries[i] /\ es[m] = entries[n] BY <2>5
    <3>3. i = n BY <3>1, <3>2 DEF JobsOnce
    <3> QED BY <2>1, <2>4, <3>3
  <2>8. Len(es) <= Len(entries) BY <2>1, <2>4
  <2> QED BY <2>4, <2>6, <2>7, <2>8 DEF es
<1> QED BY <1>1, <1>2

\* What Remember keeps is the new entry and entries of other jobs that were there.
KeptOrNew(es, entries, j, start) ==
    \A k \in 1..Len(es) : \/ es[k] = [job |-> j, start |-> start]
                          \/ es[k].job # j /\ \E i \in 1..Len(entries) : es[k] = entries[i]

LEMMA RememberEntries ==
    ASSUME NEW entries \in Seq(Entries), NEW j \in Jobs, NEW start \in Times,
           JobsOnce(entries), Len(entries) <= CacheLimit
    PROVE  /\ Remember(entries, j, start) \in Seq(Entries)
           /\ Len(Remember(entries, j, start)) <= CacheLimit
           /\ JobsOnce(Remember(entries, j, start))
           /\ KeptOrNew(Remember(entries, j, start), entries, j, start)
<1> DEFINE f == Forget(entries, j)
           e == [job |-> j, start |-> start]
           m == Append(f, e)
           es == Remember(entries, j, start)
<1>1. /\ f \in Seq(Entries) /\ Len(f) <= CacheLimit
      /\ OthersOnly(f, entries, j) /\ JobsOnce(f)
  <2>1. Len(entries) \in Nat /\ Len(f) \in Nat BY ForgetEntries
  <2> QED BY <2>1, ForgetEntries, LimitAssumption
<1>2. e \in Entries /\ e.job = j BY DEF Entries
<1> HIDE DEF f, e
<1>3. /\ m \in Seq(Entries) /\ Len(m) = Len(f) + 1 /\ m[Len(f) + 1] = e
      /\ \A k \in 1..Len(f) : m[k] = f[k]
  BY <1>1, <1>2
<1>4. es = IF Len(m) > CacheLimit THEN Tail(m) ELSE m BY DEF Remember, f, e
<1> HIDE DEF m, es
<1>5. JobsOnce(m)
  <2> SUFFICES ASSUME NEW a \in 1..Len(m), NEW b \in 1..Len(m), m[a].job = m[b].job
               PROVE  a = b
    BY DEF JobsOnce
  <2>1. CASE a \in 1..Len(f) /\ b \in 1..Len(f) BY <2>1, <1>1, <1>3 DEF JobsOnce
  <2>2. CASE a = Len(f) + 1 /\ b \in 1..Len(f) BY <2>2, <1>1, <1>2, <1>3 DEF OthersOnly
  <2>3. CASE b = Len(f) + 1 /\ a \in 1..Len(f) BY <2>3, <1>1, <1>2, <1>3 DEF OthersOnly
  <2>4. CASE a = Len(f) + 1 /\ b = Len(f) + 1 BY <2>4
  <2> QED BY <1>1, <1>3, <2>1, <2>2, <2>3, <2>4
<1>6. KeptOrNew(m, entries, j, start)
  <2> SUFFICES ASSUME NEW k \in 1..Len(m)
               PROVE  \/ m[k] = e
                      \/ m[k].job # j /\ \E i \in 1..Len(entries) : m[k] = entries[i]
    BY DEF KeptOrNew, e
  <2>1. CASE k \in 1..Len(f) BY <2>1, <1>1, <1>3 DEF OthersOnly
  <2>2. CASE k = Len(f) + 1 BY <2>2, <1>3
  <2> QED BY <1>1, <1>3, <2>1, <2>2
<1>7. CASE Len(m) > CacheLimit
  <2>1. es = Tail(m) BY <1>4, <1>7
  <2>2. Len(m) \in Nat /\ Len(m) > 0 BY <1>1, <1>3
  <2>3. /\ es \in Seq(Entries) /\ Len(es) = Len(m) - 1
        /\ \A k \in 1..Len(es) : es[k] = m[k + 1] /\ k + 1 \in 1..Len(m)
    BY <2>1, <2>2, <1>3
  <2>4. Len(es) <= CacheLimit BY <1>1, <1>3, <2>3, LimitAssumption
  <2>5. JobsOnce(es) BY <1>5, <2>3 DEF JobsOnce
  <2>6. KeptOrNew(es, entries, j, start) BY <1>6, <2>3 DEF KeptOrNew
  <2> QED BY <2>3, <2>4, <2>5, <2>6 DEF es
<1>8. CASE ~(Len(m) > CacheLimit)
  <2>1. es = m BY <1>4, <1>8
  <2>2. Len(es) <= CacheLimit BY <2>1, <1>8, <1>3, <1>1, LimitAssumption
  <2> QED BY <2>1, <2>2, <1>3, <1>5, <1>6 DEF es
<1> QED BY <1>7, <1>8

-----------------------------------------------------------------------------
(* The end of a look-up, which SetFirst, GetFound and SetAgain share.      *)

LEMMA LookupChange ==
    ASSUME TypeOK, NEW p \in Processes, NEW j \in Jobs, NEW l \in Lookups
    PROVE  [lookup EXCEPT ![p][j] = l] \in [Processes -> [Jobs -> Lookups]]
<1>1. lookup[p] \in [Jobs -> Lookups] BY DEF TypeOK
<1>2. [lookup[p] EXCEPT ![j] = l] \in [Jobs -> Lookups] BY <1>1
<1>3. [lookup EXCEPT ![p][j] = l] = [lookup EXCEPT ![p] = [lookup[p] EXCEPT ![j] = l]]
  BY DEF TypeOK
<1> QED BY <1>2, <1>3 DEF TypeOK

LEMMA NoLookupIsLookup == NoLookup \in Lookups
BY TimeAssumption DEF NoLookup, Lookups

LEMMA CacheTypes ==
    ASSUME TypeOK, NEW p \in Processes
    PROVE  cache[p] \in Seq(Entries)
BY DEF TypeOK

LEMMA CacheOnce ==
    ASSUME CacheIsBounded, NEW p \in Processes
    PROVE  JobsOnce(cache[p]) /\ Len(cache[p]) <= CacheLimit
BY DEF CacheIsBounded, JobsOnce

LEMMA EntryParts ==
    ASSUME NEW j, NEW start
    PROVE  [job |-> j, start |-> start].job = j /\ [job |-> j, start |-> start].start = start
OBVIOUS

\* A step leaves in the caches what was there, and p's entry of job j.
EntriesKept(p, j, start) ==
    \A q \in Processes : \A k \in 1..Len(cache'[q]) :
        \/ q = p /\ cache'[q][k].job = j /\ cache'[q][k].start = start
        \/ \E i \in 1..Len(cache[q]) :
               cache'[q][k] = cache[q][i] /\ (q = p => cache[q][i].job # j)

LEMMA CacheStep ==
    ASSUME TraceInv, NEW p \in Processes, NEW j \in Jobs, NEW start \in Times,
           cache' = [cache EXCEPT ![p] = Remember(@, j, start)]
    PROVE  /\ cache' \in [Processes -> Seq(Entries)]
           /\ CacheIsBounded'
           /\ EntriesKept(p, j, start)
<1> DEFINE es == Remember(cache[p], j, start)
<1>1. /\ es \in Seq(Entries) /\ Len(es) <= CacheLimit /\ JobsOnce(es)
      /\ KeptOrNew(es, cache[p], j, start)
  BY CacheTypes, CacheOnce, RememberEntries DEF TraceInv
<1>2. /\ cache' \in [Processes -> Seq(Entries)]
      /\ cache'[p] = es
      /\ \A q \in Processes \ {p} : cache'[q] = cache[q]
  BY <1>1 DEF TraceInv, TypeOK
<1> HIDE DEF es
<1>3. CacheIsBounded'
  <2> SUFFICES ASSUME NEW q \in Processes
               PROVE  Len(cache'[q]) <= CacheLimit /\ JobsOnce(cache'[q])
    BY DEF CacheIsBounded, JobsOnce
  <2>1. CASE q = p BY <2>1, <1>1, <1>2
  <2>2. CASE q # p BY <2>2, <1>2, CacheOnce DEF TraceInv
  <2> QED BY <2>1, <2>2
<1>4. ASSUME NEW q \in Processes, NEW k \in 1..Len(cache'[q])
      PROVE  \/ q = p /\ cache'[q][k].job = j /\ cache'[q][k].start = start
             \/ \E i \in 1..Len(cache[q]) :
                    cache'[q][k] = cache[q][i] /\ (q = p => cache[q][i].job # j)
  <2>1. CASE q = p
    <3>1. cache'[q] = es BY <2>1, <1>2
    <3>2. \/ es[k] = [job |-> j, start |-> start]
          \/ es[k].job # j /\ \E i \in 1..Len(cache[p]) : es[k] = cache[p][i]
      BY <1>1, <3>1 DEF KeptOrNew
    <3>3. CASE es[k] = [job |-> j, start |-> start] BY <2>1, <3>1, <3>3, EntryParts
    <3>4. CASE es[k].job # j /\ \E i \in 1..Len(cache[p]) : es[k] = cache[p][i]
      BY <2>1, <3>1, <3>4
    <3> QED BY <3>2, <3>3, <3>4
  <2>2. CASE q # p BY <2>2, <1>2
  <2> QED BY <2>1, <2>2
<1>5. EntriesKept(p, j, start) BY <1>4 DEF EntriesKept
<1> QED BY <1>2, <1>3, <1>5

LEMMA SettleKeepsInv ==
    ASSUME TraceInv, NEW p \in Processes, NEW j \in Jobs, NEW start \in Times,
           Settle(p, j, start),
           key' \in [Jobs -> 0..MaxTime],
           \A i \in Jobs \ {j} : key'[i] = key[i],
           key[j] # 0 => key'[j] # 0,
           j \notin expired => key'[j] = start /\ key[j] \in {0, start},
           clock' = clock, expired' = expired
    PROVE  TraceInv'
<1> DEFINE Served(c) == ProcessOf[c] = p /\ call[c].at = "waiting" /\ call[c].job = j
<1>1. /\ cache' = [cache EXCEPT ![p] = Remember(@, j, start)]
      /\ lookup' = [lookup EXCEPT ![p][j] = NoLookup]
      /\ call' = [c \in Calls |-> IF Served(c)
                                  THEN [at |-> "writing", job |-> j, start |-> start]
                                  ELSE call[c]]
  BY DEF Settle
<1>2. /\ cache' \in [Processes -> Seq(Entries)]
      /\ CacheIsBounded'
  BY <1>1, CacheStep
<1>3. EntriesKept(p, j, start) BY <1>1, CacheStep
<1>4. \A q \in Processes, i \in Jobs :
          lookup'[q][i] = IF q = p /\ i = j THEN NoLookup ELSE lookup[q][i]
  BY <1>1 DEF TraceInv, TypeOK
<1>5. \A c \in Calls : call'[c] = IF Served(c)
                                  THEN [at |-> "writing", job |-> j, start |-> start]
                                  ELSE call[c]
  BY <1>1
<1>6. TypeOK'
  <2>2. lookup' \in [Processes -> [Jobs -> Lookups]]
    BY <1>1, LookupChange, NoLookupIsLookup DEF TraceInv
  <2>3. call' \in [Calls -> CallStates] BY <1>1 DEF TraceInv, TypeOK, CallStates, Times
  <2> QED BY <1>2, <2>2, <2>3 DEF TraceInv, TypeOK
<1>7. StartsAgree'
  <2> SUFFICES ASSUME NEW i \in Jobs, i \notin expired
               PROVE  /\ \A q \in Processes : \A k \in 1..Len(cache'[q]) :
                             cache'[q][k].job = i => cache'[q][k].start = key'[i]
                      /\ \A c \in Calls : call'[c].at = "writing" /\ call'[c].job = i
                             => call'[c].start = key'[i]
    BY DEF StartsAgree
  <2>1. \A q \in Processes : \A k \in 1..Len(cache[q]) :
            cache[q][k].job = i => cache[q][k].start = key[i] /\ cache[q][k].start \in Times
    <3> SUFFICES ASSUME NEW q \in Processes, NEW k \in 1..Len(cache[q]), cache[q][k].job = i
                 PROVE  cache[q][k].start = key[i] /\ cache[q][k].start \in Times
      OBVIOUS
    <3>1. cache[q][k] \in Entries BY CacheTypes DEF TraceInv
    <3>2. cache[q][k].start = key[i] BY DEF TraceInv, StartsAgree
    <3> QED BY <3>1, <3>2 DEF Entries
  <2>2. \A c \in Calls : call[c].at = "writing" /\ call[c].job = i
            => call[c].start = key[i] /\ call[c].start \in Times
    BY DEF TraceInv, StartsAgree, WritersHaveStart
  <2>3. key[i] = key'[i] \/ key[i] = 0 BY DEF Times
  <2>4. \A t \in Times : t # 0 BY TimeAssumption DEF Times
  <2>7. \A q \in Processes : \A k \in 1..Len(cache'[q]) :
            cache'[q][k].job = i => cache'[q][k].start = key'[i]
    <3> SUFFICES ASSUME NEW q \in Processes, NEW k \in 1..Len(cache'[q]),
                        cache'[q][k].job = i
                 PROVE  cache'[q][k].start = key'[i]
      OBVIOUS
    <3>1. CASE q = p /\ cache'[q][k].job = j /\ cache'[q][k].start = start BY <3>1
    <3>2. CASE \E n \in 1..Len(cache[q]) : cache'[q][k] = cache[q][n]
      BY <3>2, <2>1, <2>3, <2>4
    <3> QED BY <3>1, <3>2, <1>3 DEF EntriesKept
  <2>8. \A c \in Calls : call'[c].at = "writing" /\ call'[c].job = i
            => call'[c].start = key'[i]
    <3> SUFFICES ASSUME NEW c \in Calls, call'[c].at = "writing", call'[c].job = i
                 PROVE  call'[c].start = key'[i]
      OBVIOUS
    <3>1. CASE Served(c) BY <3>1, <1>5
    <3>2. CASE ~Served(c) BY <3>2, <1>5, <2>2, <2>3, <2>4
    <3> QED BY <3>1, <3>2
  <2> QED BY <2>7, <2>8
<1>9. NobodyWaitsInVain'
  <2> SUFFICES ASSUME NEW c \in Calls, call'[c].at = "waiting"
               PROVE  lookup'[ProcessOf[c]][call'[c].job].at # "none"
    BY DEF NobodyWaitsInVain
  <2>1. ~Served(c) /\ call'[c] = call[c] BY <1>5
  <2>2. ProcessOf[c] \in Processes /\ call[c].job \in Jobs
    BY ProcessAssumption DEF TraceInv, TypeOK, CallStates
  <2>3. ~(ProcessOf[c] = p /\ call[c].job = j) BY <2>1
  <2> QED BY <2>1, <2>2, <2>3, <1>4 DEF TraceInv, NobodyWaitsInVain
<1>10. LookupsWait'
  <2> SUFFICES ASSUME NEW q \in Processes, NEW i \in Jobs
               PROVE  /\ lookup'[q][i].at # "none" => lookup'[q][i].now \in Times
                      /\ lookup'[q][i].at = "get" => key'[i] # 0 \/ i \in expired
                      /\ lookup'[q][i].at = "set" => i \in expired
    BY DEF LookupsWait
  <2>1. CASE q = p /\ i = j BY <2>1, <1>4 DEF NoLookup
  <2>2. CASE ~(q = p /\ i = j)
    <3>1. lookup'[q][i] = lookup[q][i] BY <2>2, <1>4
    <3>2. key[i] # 0 => key'[i] # 0 OBVIOUS
    <3> QED BY <3>1, <3>2 DEF TraceInv, LookupsWait
  <2> QED BY <2>1, <2>2
<1>11. WritersHaveStart'
  <2> SUFFICES ASSUME NEW c \in Calls, call'[c].at = "writing"
               PROVE  call'[c].start \in Times
    BY DEF WritersHaveStart
  <2>1. CASE Served(c) BY <2>1, <1>5
  <2>2. CASE ~Served(c) BY <2>2, <1>5 DEF TraceInv, WritersHaveStart
  <2> QED BY <2>1, <2>2
<1> QED BY <1>2, <1>6, <1>7, <1>9, <1>10, <1>11 DEF TraceInv

-----------------------------------------------------------------------------
(* Every other step.                                                       *)

LEMMA InitInv == ASSUME Init PROVE TraceInv
<1>1. 0 \in 0..MaxTime BY TimeAssumption
<1>2. NoLookup \in Lookups BY NoLookupIsLookup
<1>3. \A c \in Calls : call[c] \in [at : {"idle"}, job : Jobs, start : {0}] BY DEF Init
<1>4. TypeOK BY <1>1, <1>2 DEF Init, TypeOK, CallStates
<1>5. \A c \in Calls : call[c].at = "idle" BY <1>3
<1>6. \A p \in Processes : cache[p] = <<>> /\ \A j \in Jobs : lookup[p][j].at = "none"
  BY DEF Init, NoLookup
<1> QED BY <1>4, <1>5, <1>6, LimitAssumption
        DEF TraceInv, StartsAgree, CacheIsBounded, NobodyWaitsInVain, LookupsWait, WritersHaveStart

\* A step that changes calls only, and leads no call to wait or to write anew.
LEMMA CallsOnly ==
    ASSUME TraceInv, call' \in [Calls -> CallStates],
           \A c \in Calls : call'[c] = call[c] \/ call'[c].at = "idle",
           UNCHANGED <<clock, key, cache, lookup, expired>>
    PROVE  TraceInv'
<1>1. \A c \in Calls : call'[c].at # "idle" => call'[c] = call[c] OBVIOUS
<1>2. TypeOK' BY DEF TraceInv, TypeOK
<1>3. StartsAgree' BY <1>1 DEF TraceInv, StartsAgree
<1>4. CacheIsBounded' BY DEF TraceInv, CacheIsBounded
<1>5. NobodyWaitsInVain' BY <1>1 DEF TraceInv, NobodyWaitsInVain
<1>6. LookupsWait' BY DEF TraceInv, LookupsWait
<1>7. WritersHaveStart' BY <1>1 DEF TraceInv, WritersHaveStart
<1> QED BY <1>2, <1>3, <1>4, <1>5, <1>6, <1>7 DEF TraceInv

\* A step of one look-up that changes nothing else.
LEMMA LookupOnly ==
    ASSUME TraceInv, NEW p \in Processes, NEW j \in Jobs, NEW l \in Lookups,
           lookup' = [lookup EXCEPT ![p][j] = l],
           l.at # "none", l.now \in Times,
           l.at = "get" => key[j] # 0 \/ j \in expired,
           l.at = "set" => j \in expired,
           UNCHANGED <<clock, key, cache, call, expired>>
    PROVE  TraceInv'
<1>1. \A q \in Processes, i \in Jobs :
          lookup'[q][i] = IF q = p /\ i = j THEN l ELSE lookup[q][i]
  BY DEF TraceInv, TypeOK
<1>2. TypeOK' BY LookupChange DEF TraceInv, TypeOK
<1>3. StartsAgree' BY DEF TraceInv, StartsAgree
<1>4. CacheIsBounded' BY DEF TraceInv, CacheIsBounded
<1>5. NobodyWaitsInVain'
  <2> SUFFICES ASSUME NEW c \in Calls, call[c].at = "waiting"
               PROVE  lookup'[ProcessOf[c]][call[c].job].at # "none"
    BY DEF NobodyWaitsInVain
  <2>1. ProcessOf[c] \in Processes /\ call[c].job \in Jobs
    BY ProcessAssumption DEF TraceInv, TypeOK, CallStates
  <2> QED BY <1>1, <2>1 DEF TraceInv, NobodyWaitsInVain
<1>6. LookupsWait' BY <1>1 DEF TraceInv, LookupsWait
<1>7. WritersHaveStart' BY DEF TraceInv, WritersHaveStart
<1> QED BY <1>2, <1>3, <1>4, <1>5, <1>6, <1>7 DEF TraceInv

LEMMA CachedKeepsInv ==
    ASSUME TraceInv, NEW c \in Calls, NEW j \in Jobs, AppendCached(c, j)
    PROVE  TraceInv'
<1> DEFINE p == ProcessOf[c]
           start == CachedStart(cache[p], j)
<1>1. p \in Processes BY ProcessAssumption
<1>2. /\ call' = [call EXCEPT ![c] = [at |-> "writing", job |-> j, start |-> start]]
      /\ cache' = [cache EXCEPT ![p] = Remember(@, j, start)]
      /\ UNCHANGED <<clock, key, lookup, expired>>
  BY DEF AppendCached, Write
<1>3. start \in Times /\ (j \notin expired => start = key[j])
  <2>1. PICK i \in 1..Len(cache[p]) :
            i = Position(cache[p], j) /\ cache[p][i].job = j /\ start = cache[p][i].start
    BY PositionFound DEF AppendCached, CachedStart
  <2>2. cache[p][i] \in Entries BY <1>1, CacheTypes DEF TraceInv
  <2>3. j \notin expired => cache[p][i].start = key[j] BY <1>1, <2>1 DEF TraceInv, StartsAgree
  <2> QED BY <2>1, <2>2, <2>3 DEF Entries
<1> HIDE DEF p, start
<1>4. /\ cache' \in [Processes -> Seq(Entries)]
      /\ CacheIsBounded'
      /\ EntriesKept(p, j, start)
  BY <1>1, <1>2, <1>3, CacheStep
<1>5. \A d \in Calls : call'[d] = IF d = c THEN [at |-> "writing", job |-> j, start |-> start]
                                  ELSE call[d]
  BY <1>2 DEF TraceInv, TypeOK
<1>6. TypeOK'
  <2>1. [at |-> "writing", job |-> j, start |-> start] \in CallStates
    BY <1>3 DEF CallStates, Times
  <2> QED BY <1>2, <1>4, <2>1 DEF TraceInv, TypeOK
<1>7. StartsAgree'
  <2> SUFFICES ASSUME NEW i \in Jobs, i \notin expired
               PROVE  /\ \A q \in Processes : \A k \in 1..Len(cache'[q]) :
                             cache'[q][k].job = i => cache'[q][k].start = key[i]
                      /\ \A d \in Calls : call'[d].at = "writing" /\ call'[d].job = i
                             => call'[d].start = key[i]
    BY <1>2 DEF StartsAgree
  <2>1. ASSUME NEW q \in Processes, NEW k \in 1..Len(cache'[q]), cache'[q][k].job = i
        PROVE  cache'[q][k].start = key[i]
    <3>1. CASE cache'[q][k].job = j /\ cache'[q][k].start = start BY <3>1, <2>1, <1>3
    <3>2. CASE \E n \in 1..Len(cache[q]) : cache'[q][k] = cache[q][n]
      BY <3>2, <2>1 DEF TraceInv, StartsAgree
    <3> QED BY <3>1, <3>2, <1>4 DEF EntriesKept
  <2>2. ASSUME NEW d \in Calls, call'[d].at = "writing", call'[d].job = i
        PROVE  call'[d].start = key[i]
    <3>1. CASE d = c BY <3>1, <2>2, <1>3, <1>5
    <3>2. CASE d # c BY <3>2, <2>2, <1>5 DEF TraceInv, StartsAgree
    <3> QED BY <3>1, <3>2
  <2> QED BY <2>1, <2>2
<1>8. NobodyWaitsInVain' BY <1>2, <1>5 DEF TraceInv, NobodyWaitsInVain
<1>9. LookupsWait' BY <1>2 DEF TraceInv, LookupsWait
<1>10. WritersHaveStart' BY <1>3, <1>5 DEF TraceInv, WritersHaveStart
<1> QED BY <1>4, <1>6, <1>7, <1>8, <1>9, <1>10 DEF TraceInv

LEMMA WaitChange ==
    ASSUME TraceInv, NEW c \in Calls, NEW j \in Jobs, Wait(c, j)
    PROVE  /\ call' \in [Calls -> CallStates]
           /\ call'[c].at = "waiting" /\ call'[c].job = j
           /\ \A d \in Calls \ {c} : call'[d] = call[d]
<1>1. call' = [call EXCEPT ![c] = [at |-> "waiting", job |-> j, start |-> 0]] BY DEF Wait
<1>2. 0 \in 0..MaxTime BY TimeAssumption
<1>3. [at |-> "waiting", job |-> j, start |-> 0] \in CallStates BY <1>2 DEF CallStates
<1> QED BY <1>1, <1>3 DEF TraceInv, TypeOK

LEMMA JoinKeepsInv ==
    ASSUME TraceInv, NEW c \in Calls, NEW j \in Jobs, AppendJoins(c, j)
    PROVE  TraceInv'
<1>1. /\ call' \in [Calls -> CallStates]
      /\ call'[c].at = "waiting" /\ call'[c].job = j
      /\ \A d \in Calls \ {c} : call'[d] = call[d]
  BY WaitChange DEF AppendJoins
<1>2. UNCHANGED <<clock, key, cache, lookup, expired>> BY DEF AppendJoins
<1>3. TypeOK' BY <1>1, <1>2 DEF TraceInv, TypeOK
<1>4. StartsAgree' BY <1>1, <1>2 DEF TraceInv, StartsAgree
<1>5. CacheIsBounded' BY <1>2 DEF TraceInv, CacheIsBounded
<1>6. NobodyWaitsInVain' BY <1>1, <1>2 DEF TraceInv, NobodyWaitsInVain, AppendJoins
<1>7. LookupsWait' BY <1>2 DEF TraceInv, LookupsWait
<1>8. WritersHaveStart' BY <1>1 DEF TraceInv, WritersHaveStart
<1> QED BY <1>3, <1>4, <1>5, <1>6, <1>7, <1>8 DEF TraceInv

LEMMA LooksUpKeepsInv ==
    ASSUME TraceInv, NEW c \in Calls, NEW j \in Jobs, AppendLooksUp(c, j)
    PROVE  TraceInv'
<1> DEFINE p == ProcessOf[c]
           l == [at |-> "setnx", now |-> clock']
<1>1. p \in Processes BY ProcessAssumption
<1>2. /\ call' \in [Calls -> CallStates]
      /\ call'[c].at = "waiting" /\ call'[c].job = j
      /\ \A d \in Calls \ {c} : call'[d] = call[d]
  BY WaitChange DEF AppendLooksUp
<1>3. /\ lookup' = [lookup EXCEPT ![p][j] = l]
      /\ UNCHANGED <<key, cache, expired>>
  BY DEF AppendLooksUp
<1>4. clock' \in Times /\ clock' \in 0..MaxTime
  BY TimeAssumption DEF AppendLooksUp, TraceInv, TypeOK, Times
<1>5. l \in Lookups /\ l.at = "setnx" /\ l.now \in Times BY <1>4 DEF Lookups
<1> HIDE DEF p, l
<1>6. \A q \in Processes, i \in Jobs :
          lookup'[q][i] = IF q = p /\ i = j THEN l ELSE lookup[q][i]
  BY <1>3 DEF TraceInv, TypeOK
<1>7. TypeOK'
  <2>1. lookup' \in [Processes -> [Jobs -> Lookups]]
    BY <1>1, <1>3, <1>5, LookupChange DEF TraceInv
  <2> QED BY <1>2, <1>3, <1>4, <2>1 DEF TraceInv, TypeOK
<1>8. StartsAgree' BY <1>2, <1>3 DEF TraceInv, StartsAgree
<1>9. CacheIsBounded' BY <1>3 DEF TraceInv, CacheIsBounded
<1>10. NobodyWaitsInVain'
  <2> SUFFICES ASSUME NEW d \in Calls, call'[d].at = "waiting"
               PROVE  lookup'[ProcessOf[d]][call'[d].job].at # "none"
    BY DEF NobodyWaitsInVain
  <2>1. ProcessOf[d] \in Processes /\ call'[d].job \in Jobs
    BY <1>2, ProcessAssumption DEF CallStates
  <2>2. CASE d = c
    <3>1. ProcessOf[d] = p /\ call'[d].job = j BY <2>2, <1>2 DEF p
    <3> QED BY <3>1, <2>1, <1>5, <1>6
  <2>3. CASE d # c
    <3>1. lookup[ProcessOf[d]][call'[d].job].at # "none"
      BY <2>3, <1>2 DEF TraceInv, NobodyWaitsInVain
    <3> QED BY <3>1, <2>1, <1>5, <1>6
  <2> QED BY <2>2, <2>3
<1>11. LookupsWait' BY <1>3, <1>5, <1>6 DEF TraceInv, LookupsWait
<1>12. WritersHaveStart' BY <1>2 DEF TraceInv, WritersHaveStart
<1> QED BY <1>7, <1>8, <1>9, <1>10, <1>11, <1>12 DEF TraceInv

LEMMA LookupStepKeepsInv ==
    ASSUME TraceInv, NEW p \in Processes, NEW j \in Jobs, LookupStep(p, j)
    PROVE  TraceInv'
<1> DEFINE l == lookup[p][j]
<1>1. l \in Lookups /\ (l.at # "none" => l.now \in Times)
  BY DEF TraceInv, TypeOK, LookupsWait
<1>2. key[j] \in 0..MaxTime /\ key \in [Jobs -> 0..MaxTime] BY DEF TraceInv, TypeOK
<1>3. \A t \in Times : t \in 0..MaxTime /\ t # 0 BY TimeAssumption DEF Times
<1>4. CASE SetFirst(p, j)
  <2>1. key[j] = 0 /\ l.now \in Times /\ Settle(p, j, l.now)
        /\ key' = [key EXCEPT ![j] = l.now] /\ clock' = clock /\ expired' = expired
    BY <1>1, <1>4 DEF SetFirst
  <2>2. key' \in [Jobs -> 0..MaxTime] /\ key'[j] = l.now
        /\ \A i \in Jobs \ {j} : key'[i] = key[i]
    BY <1>2, <1>3, <2>1
  <2> QED BY <2>1, <2>2, SettleKeepsInv
<1>5. CASE SetRefused(p, j)
  <2> DEFINE new == [at |-> "get", now |-> l.now]
  <2>1. new \in Lookups /\ new.at = "get" /\ new.now \in Times
    BY <1>1, <1>5 DEF SetRefused, Lookups
  <2>2. lookup' = [lookup EXCEPT ![p][j] = new]
    BY <1>5 DEF SetRefused
  <2>3. key[j] # 0 /\ UNCHANGED <<clock, key, cache, call, expired>>
    BY <1>5 DEF SetRefused
  <2> HIDE DEF new
  <2> QED BY <2>1, <2>2, <2>3, LookupOnly
<1>6. CASE GetFound(p, j)
  <2>1. key[j] \in Times BY <1>2, <1>6, TimeAssumption DEF GetFound, Times
  <2>2. Settle(p, j, key[j]) /\ key' = key /\ clock' = clock /\ expired' = expired
    BY <1>6 DEF GetFound
  <2>3. /\ key' \in [Jobs -> 0..MaxTime]
        /\ \A i \in Jobs \ {j} : key'[i] = key[i]
        /\ key'[j] = key[j]
    BY <1>2, <2>2
  <2> QED BY <2>1, <2>2, <2>3, SettleKeepsInv
<1>7. CASE GetNothing(p, j)
  <2> DEFINE new == [at |-> "set", now |-> l.now]
  <2>1. new \in Lookups /\ new.at = "set" /\ new.now \in Times
    BY <1>1, <1>7 DEF GetNothing, Lookups
  <2>2. lookup' = [lookup EXCEPT ![p][j] = new]
    BY <1>7 DEF GetNothing
  <2>3. j \in expired /\ UNCHANGED <<clock, key, cache, call, expired>>
    BY <1>7 DEF GetNothing, TraceInv, LookupsWait
  <2> HIDE DEF new
  <2> QED BY <2>1, <2>2, <2>3, LookupOnly
<1>8. CASE SetAgain(p, j)
  <2>1. j \in expired /\ l.now \in Times /\ Settle(p, j, l.now)
        /\ key' = [key EXCEPT ![j] = l.now] /\ clock' = clock /\ expired' = expired
    BY <1>1, <1>8 DEF SetAgain, TraceInv, LookupsWait
  <2>2. key' \in [Jobs -> 0..MaxTime] /\ key'[j] = l.now /\ key'[j] # 0
        /\ \A i \in Jobs \ {j} : key'[i] = key[i]
    BY <1>2, <1>3, <2>1
  <2> QED BY <2>1, <2>2, SettleKeepsInv
<1> QED BY <1>4, <1>5, <1>6, <1>7, <1>8 DEF LookupStep

LEMMA FailKeepsInv ==
    ASSUME TraceInv, NEW p \in Processes, NEW j \in Jobs, LookupFails(p, j)
    PROVE  TraceInv'
<1> DEFINE Served(c) == ProcessOf[c] = p /\ call[c].at = "waiting" /\ call[c].job = j
<1>1. /\ lookup' = [lookup EXCEPT ![p][j] = NoLookup]
      /\ call' = [c \in Calls |-> IF Served(c) THEN [call[c] EXCEPT !.at = "idle"] ELSE call[c]]
      /\ UNCHANGED <<clock, cache, expired>>
  BY DEF LookupFails
<1>2. \A c \in Calls : IF Served(c) THEN call'[c].at = "idle" ELSE call'[c] = call[c]
  BY <1>1 DEF TraceInv, TypeOK, CallStates
<1>3. \A q \in Processes, i \in Jobs :
          lookup'[q][i] = IF q = p /\ i = j THEN NoLookup ELSE lookup[q][i]
  BY <1>1 DEF TraceInv, TypeOK
<1>4. /\ key' \in [Jobs -> 0..MaxTime]
      /\ \A i \in Jobs : key[i] # 0 => key'[i] # 0
      /\ \A i \in Jobs \ expired : key'[i] = key[i] \/ key[i] = 0
  <2>1. CASE UNCHANGED key BY <2>1 DEF TraceInv, TypeOK
  <2>2. CASE Unanswered(p, j) /\ key' = [key EXCEPT ![j] = lookup[p][j].now]
    <3>1. lookup[p][j].now \in Times BY <2>2 DEF TraceInv, LookupsWait, Unanswered
    <3>2. key[j] = 0 \/ j \in expired BY <2>2 DEF TraceInv, LookupsWait, Unanswered
    <3>3. /\ key'[j] = lookup[p][j].now
          /\ \A i \in Jobs \ {j} : key'[i] = key[i]
      BY <2>2 DEF TraceInv, TypeOK
    <3>4. key' \in [Jobs -> 0..MaxTime] BY <2>2, <3>1 DEF TraceInv, TypeOK, Times
    <3>5. key'[j] # 0 BY <3>1, <3>3, TimeAssumption DEF Times
    <3> QED BY <3>2, <3>3, <3>4, <3>5
  <2> QED BY <2>1, <2>2 DEF LookupFails
<1>5. \A t \in Times : t # 0 BY TimeAssumption DEF Times
<1>6. TypeOK'
  <2>1. call' \in [Calls -> CallStates] BY <1>1 DEF TraceInv, TypeOK, CallStates
  <2>2. lookup' \in [Processes -> [Jobs -> Lookups]]
    BY <1>1, LookupChange, NoLookupIsLookup DEF TraceInv
  <2> QED BY <1>1, <1>4, <2>1, <2>2 DEF TraceInv, TypeOK
<1>7. StartsAgree'
  <2> SUFFICES ASSUME NEW i \in Jobs, i \notin expired
               PROVE  /\ \A q \in Processes : \A k \in 1..Len(cache[q]) :
                             cache[q][k].job = i => cache[q][k].start = key'[i]
                      /\ \A c \in Calls : call'[c].at = "writing" /\ call'[c].job = i
                             => call'[c].start = key'[i]
    BY <1>1 DEF StartsAgree
  <2>1. ASSUME NEW q \in Processes, NEW k \in 1..Len(cache[q]), cache[q][k].job = i
        PROVE  cache[q][k].start = key'[i]
    <3>1. cache[q][k].start = key[i] BY <2>1 DEF TraceInv, StartsAgree
    <3>2. cache[q][k] \in Entries BY <2>1, CacheTypes DEF TraceInv
    <3> QED BY <3>1, <3>2, <1>4, <1>5 DEF Entries
  <2>2. ASSUME NEW c \in Calls, call'[c].at = "writing", call'[c].job = i
        PROVE  call'[c].start = key'[i]
    <3>1. call'[c] = call[c] BY <2>2, <1>2
    <3>2. call[c].start = key[i] /\ call[c].start \in Times
      BY <2>2, <3>1 DEF TraceInv, StartsAgree, WritersHaveStart
    <3> QED BY <3>1, <3>2, <1>4, <1>5
  <2> QED BY <2>1, <2>2
<1>8. CacheIsBounded' BY <1>1 DEF TraceInv, CacheIsBounded
<1>9. NobodyWaitsInVain'
  <2> SUFFICES ASSUME NEW c \in Calls, call'[c].at = "waiting"
               PROVE  lookup'[ProcessOf[c]][call'[c].job].at # "none"
    BY DEF NobodyWaitsInVain
  <2>1. ~Served(c) /\ call'[c] = call[c] BY <1>2
  <2>2. ProcessOf[c] \in Processes /\ call[c].job \in Jobs
    BY ProcessAssumption DEF TraceInv, TypeOK, CallStates
  <2> QED BY <2>1, <2>2, <1>3 DEF TraceInv, NobodyWaitsInVain
<1>10. LookupsWait' BY <1>1, <1>3, <1>4 DEF TraceInv, LookupsWait, NoLookup
<1>11. WritersHaveStart' BY <1>2 DEF TraceInv, WritersHaveStart
<1> QED BY <1>6, <1>7, <1>8, <1>9, <1>10, <1>11 DEF TraceInv

LEMMA RestartKeepsInv ==
    ASSUME TraceInv, NEW p \in Processes, Restart(p)
    PROVE  TraceInv'
<1>1. /\ cache' = [cache EXCEPT ![p] = <<>>]
      /\ lookup' = [lookup EXCEPT ![p] = [j \in Jobs |-> NoLookup]]
      /\ call' = [c \in Calls |-> IF ProcessOf[c] = p
                                  THEN [at |-> "idle", job |-> call[c].job, start |-> 0] ELSE call[c]]
      /\ UNCHANGED <<clock, key, expired>>
  BY DEF Restart
<1>2. \A c \in Calls : IF ProcessOf[c] = p THEN call'[c].at = "idle" ELSE call'[c] = call[c]
  BY <1>1 DEF TraceInv, TypeOK, CallStates
<1>3. \A q \in Processes :
          /\ cache'[q] = IF q = p THEN <<>> ELSE cache[q]
          /\ lookup'[q] = IF q = p THEN [j \in Jobs |-> NoLookup] ELSE lookup[q]
  BY <1>1 DEF TraceInv, TypeOK
<1>4. /\ <<>> \in Seq(Entries) /\ Len(<<>>) = 0
       /\ [j \in Jobs |-> NoLookup] \in [Jobs -> Lookups]
       /\ NoLookup.at = "none"
  BY NoLookupIsLookup DEF NoLookup
<1>5. \A q \in Processes : q # p => cache'[q] = cache[q] /\ lookup'[q] = lookup[q]
  BY <1>3
<1>6. cache'[p] = <<>> /\ \A j \in Jobs : lookup'[p][j] = NoLookup BY <1>3
<1>7. TypeOK'
  <2>1. call' \in [Calls -> CallStates]
    <3>1. 0 \in 0..MaxTime BY TimeAssumption
    <3>2. \A s \in CallStates : [at |-> "idle", job |-> s.job, start |-> 0] \in CallStates
      BY <3>1 DEF CallStates
    <3> QED BY <1>1, <3>2 DEF TraceInv, TypeOK
  <2>2. lookup' \in [Processes -> [Jobs -> Lookups]]
    BY <1>1, <1>4 DEF TraceInv, TypeOK
  <2>3. cache' \in [Processes -> Seq(Entries)] BY <1>1, <1>4 DEF TraceInv, TypeOK
  <2> QED BY <1>1, <2>1, <2>2, <2>3 DEF TraceInv, TypeOK
<1>8. StartsAgree'
  <2> SUFFICES ASSUME NEW i \in Jobs, i \notin expired
               PROVE  /\ \A q \in Processes : \A k \in 1..Len(cache'[q]) :
                             cache'[q][k].job = i => cache'[q][k].start = key[i]
                      /\ \A c \in Calls : call'[c].at = "writing" /\ call'[c].job = i
                             => call'[c].start = key[i]
    BY <1>1 DEF StartsAgree
  <2>1. ASSUME NEW q \in Processes, NEW k \in 1..Len(cache'[q]), cache'[q][k].job = i
        PROVE  cache'[q][k].start = key[i]
    <3>1. CASE q = p BY <3>1, <2>1, <1>4, <1>6
    <3>2. CASE q # p BY <3>2, <2>1, <1>5 DEF TraceInv, StartsAgree
    <3> QED BY <3>1, <3>2
  <2>2. \A c \in Calls : call'[c].at = "writing" => call'[c] = call[c] BY <1>2
  <2> QED BY <2>1, <2>2 DEF TraceInv, StartsAgree
<1>9. CacheIsBounded'
  <2> SUFFICES ASSUME NEW q \in Processes
               PROVE  Len(cache'[q]) <= CacheLimit /\ JobsOnce(cache'[q])
    BY DEF CacheIsBounded, JobsOnce
  <2>1. CASE q = p BY <2>1, <1>4, <1>6, LimitAssumption DEF JobsOnce
  <2>2. CASE q # p BY <2>2, <1>5, CacheOnce DEF TraceInv
  <2> QED BY <2>1, <2>2
<1>10. NobodyWaitsInVain' BY <1>2, <1>5, ProcessAssumption DEF TraceInv, NobodyWaitsInVain
<1>11. LookupsWait'
  <2> SUFFICES ASSUME NEW q \in Processes, NEW i \in Jobs
               PROVE  /\ lookup'[q][i].at # "none" => lookup'[q][i].now \in Times
                      /\ lookup'[q][i].at = "get" => key[i] # 0 \/ i \in expired
                      /\ lookup'[q][i].at = "set" => i \in expired
    BY <1>1 DEF LookupsWait
  <2>1. CASE q = p BY <2>1, <1>4, <1>6
  <2>2. CASE q # p BY <2>2, <1>5 DEF TraceInv, LookupsWait
  <2> QED BY <2>1, <2>2
<1>12. WritersHaveStart' BY <1>2 DEF TraceInv, WritersHaveStart
<1> QED BY <1>7, <1>8, <1>9, <1>10, <1>11, <1>12 DEF TraceInv

LEMMA ExpireKeepsInv ==
    ASSUME TraceInv, NEW j \in Jobs, Expire(j)
    PROVE  TraceInv'
<1>1. /\ key' = [key EXCEPT ![j] = 0] /\ expired' = expired \cup {j}
      /\ UNCHANGED <<clock, cache, lookup, call>>
  BY DEF Expire
<1>2. \A i \in Jobs : i \notin expired' => key'[i] = key[i] /\ i \notin expired
  BY <1>1 DEF TraceInv, TypeOK
<1>3. TypeOK' BY <1>1, TimeAssumption DEF TraceInv, TypeOK
<1>4. StartsAgree' BY <1>1, <1>2 DEF TraceInv, StartsAgree
<1>5. CacheIsBounded' BY <1>1 DEF TraceInv, CacheIsBounded
<1>6. NobodyWaitsInVain' BY <1>1 DEF TraceInv, NobodyWaitsInVain
<1>7. LookupsWait' BY <1>1, <1>2 DEF TraceInv, LookupsWait
<1>8. WritersHaveStart' BY <1>1 DEF TraceInv, WritersHaveStart
<1> QED BY <1>3, <1>4, <1>5, <1>6, <1>7, <1>8 DEF TraceInv

LEMMA StepInv == ASSUME TraceInv, [Next]_vars PROVE TraceInv'
<1>1. CASE \E c \in Calls : WriteEntry(c)
  <2>1. PICK c \in Calls : WriteEntry(c) BY <1>1
  <2> DEFINE new == [at |-> "idle", job |-> call[c].job, start |-> 0]
  <2>2. call[c] \in CallStates /\ new \in CallStates /\ new.at = "idle"
    BY TimeAssumption DEF TraceInv, TypeOK, CallStates
  <2>3. call' = [call EXCEPT ![c] = new]
    BY <2>1 DEF WriteEntry
  <2> HIDE DEF new
  <2>4. /\ call' \in [Calls -> CallStates]
        /\ \A d \in Calls : call'[d] = call[d] \/ call'[d].at = "idle"
    BY <2>2, <2>3 DEF TraceInv, TypeOK
  <2> QED BY <2>1, <2>4, CallsOnly DEF WriteEntry
<1>2. CASE \E c \in Calls, j \in Jobs : AppendStep(c, j)
  BY <1>2, CachedKeepsInv, JoinKeepsInv, LooksUpKeepsInv DEF AppendStep
<1>3. CASE \E p \in Processes, j \in Jobs : LookupStep(p, j) BY <1>3, LookupStepKeepsInv
<1>4. CASE \E p \in Processes, j \in Jobs : LookupFails(p, j) BY <1>4, FailKeepsInv
<1>5. CASE \E p \in Processes : Restart(p) BY <1>5, RestartKeepsInv
<1>6. CASE \E j \in Jobs : Expire(j) BY <1>6, ExpireKeepsInv
<1>7. CASE UNCHANGED vars
  <2>1. /\ call' \in [Calls -> CallStates] /\ \A d \in Calls : call'[d] = call[d]
        /\ UNCHANGED <<clock, key, cache, lookup, expired>>
    BY <1>7 DEF vars, TraceInv, TypeOK
  <2> QED BY <2>1, CallsOnly
<1> QED BY <1>1, <1>2, <1>3, <1>4, <1>5, <1>6, <1>7 DEF Next

LEMMA TraceInvAlways == Spec => []TraceInv
BY InitInv, StepInv, PTL DEF Spec

-----------------------------------------------------------------------------
\* Every variable of the trace store keeps its type.
THEOREM TraceTypesCorrect == Spec => []TypeOK
<1>1. TraceInv => TypeOK BY DEF TraceInv
<1> QED BY <1>1, TraceInvAlways, PTL

\* All processes use the start time of the key as long as it has not expired
\* (RedisTraceStore.resolveStartMs).
THEOREM ProcessesAgree == Spec => []StartsAgree
<1>1. TraceInv => StartsAgree BY DEF TraceInv
<1> QED BY <1>1, TraceInvAlways, PTL

\* The cache of start times never outgrows its limit and holds no job twice
\* (rememberStartMs).
THEOREM CachesStayBounded == Spec => []CacheIsBounded
<1>1. TraceInv => CacheIsBounded BY DEF TraceInv
<1> QED BY <1>1, TraceInvAlways, PTL

\* A waiting append has a look-up that will serve it (startMsInflight).
THEOREM WaitingIsServed == Spec => []NobodyWaitsInVain
<1>1. TraceInv => NobodyWaitsInVain BY DEF TraceInv
<1> QED BY <1>1, TraceInvAlways, PTL
=============================================================================
