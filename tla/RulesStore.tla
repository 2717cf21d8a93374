----------------------------- MODULE RulesStore -----------------------------
(***************************************************************************)
(* The rules registry of one tenant (services/rules-service.ts, its routes *)
(* in api/routes.ts) and the loader's cache (services/rules-loader.ts).    *)
(*                                                                         *)
(* A version of the rules is an archive file, a metadata hash and, for the *)
(* version in force, the current key.  publish writes the three one after  *)
(* the other; resolve reads the last two one after the other and leaves    *)
(* the file to a later download or load.  Nothing locks any of it.  An     *)
(* archive stands for its SHA-256 as well.                                 *)
(***************************************************************************)
EXTENDS Naturals

CONSTANTS
    Versions,
    Archives,
    Publishes,    (* publish requests                                      *)
    Rollbacks,    (* rollback requests                                     *)
    Clients,      (* readers that resolve and download                     *)
    Runs,         (* readers that resolve and load: slots of the runners   *)
    Processes,    (* the runner processes, each with a cache               *)
    ProcessOf,    (* the process of each run                               *)
    None,
    Torn          (* a file that is no whole archive                       *)

ASSUME ProcessAssumption == ProcessOf \in [Runs -> Processes]
ASSUME NoneAssumption    == None \notin Versions \cup Archives \cup {Torn} /\ Torn \notin Archives

VARIABLES
    current,      (* syl:rules:current:<tenant>                            *)
    meta,         (* syl:rules:meta:<tenant>:<version>                     *)
    file,         (* <rules dir>/<tenant>/<version>/rules.tar.gz           *)
    publish,      (* each publish request                                  *)
    rollback,     (* each rollback request                                 *)
    reader,       (* each client and run                                   *)
    cache,        (* the loader's cache of each process                    *)
    twice,        (* versions that more than one request began to publish  *)
    clashed       (* those published by two at once, or not to the end     *)

registry == <<current, meta, file>>
vars == <<registry, publish, rollback, reader, cache, twice, clashed>>

-----------------------------------------------------------------------------
Readers == Clients \cup Runs

PublishStates ==
    [at : {"idle", "writing", "describing", "activating", "done", "dead"},
     version : Versions, archive : Archives, mixed : BOOLEAN]

RollbackStates == [at : {"idle", "activating", "done", "refused"}, version : Versions]

\* "describing": a reader knows the version and asks for its metadata; sha is what
\* it resolved, got what it downloaded or loaded.
ReaderStates ==
    [at : {"idle", "describing", "resolved", "caching", "got", "failed"},
     version : Versions \cup {None}, sha : Archives \cup {None},
     got : Archives \cup {None, Torn}]

TypeOK ==
    /\ current \in Versions \cup {None}
    /\ meta \in [Versions -> Archives \cup {None}]
    /\ file \in [Versions -> Archives \cup {None, Torn}]
    /\ publish \in [Publishes -> PublishStates]
    /\ rollback \in [Rollbacks -> RollbackStates]
    /\ reader \in [Readers -> ReaderStates]
    /\ cache \in [Processes -> [Versions -> Archives \cup {None}]]
    /\ twice \subseteq Versions
    /\ clashed \subseteq Versions

NoReader == [at |-> "idle", version |-> None, sha |-> None, got |-> None]

Init ==
    /\ current = None
    /\ meta = [v \in Versions |-> None]
    /\ file = [v \in Versions |-> None]
    /\ publish \in [Publishes -> [at : {"idle"}, version : Versions, archive : Archives,
                                  mixed : {FALSE}]]
    /\ rollback \in [Rollbacks -> [at : {"idle"}, version : Versions]]
    /\ reader = [r \in Readers |-> NoReader]
    /\ cache = [p \in Processes |-> [v \in Versions |-> None]]
    /\ twice = {}
    /\ clashed = {}

-----------------------------------------------------------------------------
(* publish: a valid request; an invalid one is refused and changes nothing. *)

Goes(p, from, to) ==
    /\ publish[p].at = from
    /\ publish' = [publish EXCEPT ![p].at = to]

Writing(v) == {p \in Publishes : publish[p].version = v /\ publish[p].at = "writing"}
Underway(v) == {p \in Publishes : /\ publish[p].version = v
                                  /\ publish[p].at \in {"writing", "describing", "activating"}}
Begun(v) == {p \in Publishes : publish[p].version = v /\ publish[p].at # "idle"}

\* mkdir, and writeFile has opened the file, which truncates it.  Writers that
\* have the file open together may mix their archives.
OpenFile(p) ==
    LET v == publish[p].version IN
        /\ publish[p].at = "idle"
        /\ publish' = [q \in Publishes |->
                          IF q = p
                          THEN [publish[p] EXCEPT !.at = "writing", !.mixed = Writing(v) # {}]
                          ELSE IF q \in Writing(v) THEN [publish[q] EXCEPT !.mixed = TRUE]
                          ELSE publish[q]]
        /\ file' = [file EXCEPT ![v] = Torn]
        /\ twice' = IF Begun(v) # {} THEN twice \cup {v} ELSE twice
        /\ clashed' = IF Underway(v) # {} THEN clashed \cup {v} ELSE clashed
        /\ UNCHANGED <<current, meta, rollback, reader, cache>>

\* writeFile is done.
WriteFile(p) ==
    LET v == publish[p].version IN
        /\ Goes(p, "writing", "describing")
        /\ \E content \in {publish[p].archive} \cup (IF publish[p].mixed THEN {Torn} ELSE {}) :
               file' = [file EXCEPT ![v] = content]
        /\ UNCHANGED <<current, meta, rollback, reader, cache, twice, clashed>>

\* Variant: the metadata does not wait for the file.
DescribeEarly(p) ==
    /\ publish[p].at \in {"writing", "describing"}
    /\ publish' = [publish EXCEPT ![p].at = "activating"]
    /\ meta' = [meta EXCEPT ![publish[p].version] = publish[p].archive]
    /\ UNCHANGED <<current, file, rollback, reader, cache, twice, clashed>>

\* Variant: the metadata of a version is written once.
DescribeOnce(p) ==
    LET v == publish[p].version IN
        /\ Goes(p, "describing", "activating")
        /\ meta' = IF meta[v] = None THEN [meta EXCEPT ![v] = publish[p].archive] ELSE meta
        /\ UNCHANGED <<current, file, rollback, reader, cache, twice, clashed>>

\* HSET of the metadata.
Describe(p) ==
    /\ Goes(p, "describing", "activating")
    /\ meta' = [meta EXCEPT ![publish[p].version] = publish[p].archive]
    /\ UNCHANGED <<current, file, rollback, reader, cache, twice, clashed>>

\* SET of the current key.
Activate(p) ==
    /\ Goes(p, "activating", "done")
    /\ current' = publish[p].version
    /\ UNCHANGED <<meta, file, rollback, reader, cache, twice, clashed>>

\* The API process dies, or a command or the file system fails.
PublishDies(p) ==
    /\ publish[p].at \in {"writing", "describing", "activating"}
    /\ publish' = [publish EXCEPT ![p].at = "dead"]
    /\ clashed' = clashed \cup {publish[p].version}
    /\ UNCHANGED <<registry, rollback, reader, cache, twice>>

PublishStep(p) ==
    OpenFile(p) \/ WriteFile(p) \/ Describe(p) \/ Activate(p) \/ PublishDies(p)

-----------------------------------------------------------------------------
(* rollback                                                                *)

\* Variant: rollback trusts the request.
IsKnownAnyway(v) == TRUE

IsKnown(v) == meta[v] # None

\* HGETALL of the version's metadata.
CheckRollback(b) ==
    /\ rollback[b].at = "idle"
    /\ rollback' = [rollback EXCEPT ![b].at =
                       IF IsKnown(rollback[b].version) THEN "activating" ELSE "refused"]
    /\ UNCHANGED <<registry, publish, reader, cache, twice, clashed>>

\* SET of the current key.
ActivateRollback(b) ==
    /\ rollback[b].at = "activating"
    /\ rollback' = [rollback EXCEPT ![b].at = "done"]
    /\ current' = rollback[b].version
    /\ UNCHANGED <<meta, file, publish, reader, cache, twice, clashed>>

-----------------------------------------------------------------------------
(* resolve, download and load                                              *)

Becomes(r, state) ==
    /\ reader' = [reader EXCEPT ![r] = state]
    /\ UNCHANGED <<registry, publish, rollback, twice, clashed>>

\* GET of the current key, by a client's request or a run's attempt.
ReadCurrent(r) ==
    /\ reader[r].at \in {"idle", "got", "failed"}
    /\ Becomes(r, [NoReader EXCEPT !.at = IF current = None THEN "failed" ELSE "describing",
                                   !.version = current])
    /\ UNCHANGED cache

\* Variant: the metadata are those of the version that is current by now.
ReadMetaOfCurrent(r) ==
    /\ reader[r].at = "describing"
    /\ current # None /\ meta[current] # None
    /\ Becomes(r, [reader[r] EXCEPT !.at = "resolved", !.sha = meta[current]])
    /\ UNCHANGED cache

\* HGETALL of the metadata.
ReadMeta(r) ==
    LET known == meta[reader[r].version] IN
        /\ reader[r].at = "describing"
        /\ Becomes(r, [reader[r] EXCEPT !.at = IF known = None THEN "failed" ELSE "resolved",
                                        !.sha = known])
        /\ UNCHANGED cache

\* GET /v1/rules/download: readFile, or 404.
Download(r) ==
    /\ r \in Clients
    /\ reader[r].at = "resolved"
    /\ LET found == file[reader[r].version] IN
           Becomes(r, [reader[r] EXCEPT !.at = IF found = None THEN "failed" ELSE "got",
                                        !.got = found])
    /\ UNCHANGED cache

\* Variant: the cache forgets of which version its rules are.
CachedOfAnyVersion(p, v) ==
    IF \E w \in Versions : cache[p][w] # None
    THEN cache[p][CHOOSE w \in Versions : cache[p][w] # None] ELSE None

Cached(p, v) == cache[p][v]

\* loadTenantRules: the process has loaded the version before ...
LoadCached(r) ==
    LET rules == Cached(ProcessOf[r], reader[r].version) IN
        /\ r \in Runs
        /\ reader[r].at = "resolved"
        /\ rules # None
        /\ Becomes(r, [reader[r] EXCEPT !.at = "got", !.got = rules])
        /\ UNCHANGED cache

\* ... or the archive is extracted and parsed, which fails if it is not whole ...
Extract(r) ==
    LET found == file[reader[r].version] IN
        /\ r \in Runs
        /\ reader[r].at = "resolved"
        /\ Cached(ProcessOf[r], reader[r].version) = None
        /\ Becomes(r, IF found \in Archives
                      THEN [reader[r] EXCEPT !.at = "caching", !.got = found]
                      ELSE [reader[r] EXCEPT !.at = "failed"])
        /\ UNCHANGED cache

\* ... and kept, whatever another run has put there meanwhile.
StoreRules(r) ==
    /\ reader[r].at = "caching"
    /\ Becomes(r, [reader[r] EXCEPT !.at = "got"])
    /\ cache' = [cache EXCEPT ![ProcessOf[r]][reader[r].version] = reader[r].got]

ReadStep(r) ==
    \/ ReadCurrent(r) \/ ReadMeta(r) \/ Download(r)
    \/ LoadCached(r) \/ Extract(r) \/ StoreRules(r)

Next ==
    \/ \E p \in Publishes : PublishStep(p)
    \/ \E b \in Rollbacks : CheckRollback(b) \/ ActivateRollback(b)
    \/ \E r \in Readers : ReadStep(r)

Spec == Init /\ [][Next]_vars

-----------------------------------------------------------------------------
(* Properties.                                                             *)

\* Once a tenant has rules, resolve does not fail: whatever publishes and rollbacks
\* do, the version in force has metadata, and so has one that a reader has just
\* been told to be in force.
ResolveHolds ==
    /\ current # None => meta[current] # None
    /\ \A r \in Readers : reader[r].at = "describing" => meta[reader[r].version] # None

\* A version that was published once, whatever became of that publish, is whole
\* as soon as it has metadata: the archive is there and is the one described.
DescribedIsWhole ==
    \A v \in Versions \ twice : meta[v] # None => file[v] = meta[v]

\* What a client downloads is what was described to it when it resolved, although
\* other versions were published or rolled back to in between.
DownloadMatches ==
    \A r \in Clients : reader[r].at = "got" /\ reader[r].version \notin twice
                           => reader[r].got = reader[r].sha

\* A run works with the rules of the version it resolved, from its process's cache
\* or not.
RunsUseTheirVersion ==
    \A r \in Runs : reader[r].at = "got" /\ reader[r].version \notin twice
                        => reader[r].got = reader[r].sha

\* Publishing a version again replaces it as a whole: when no publish of it is
\* under way, none died and no two were at it together, archive and metadata agree.
QuietVersionAgrees ==
    \A v \in Versions \ clashed : Underway(v) = {} => file[v] = meta[v]
=============================================================================
