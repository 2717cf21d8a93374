-------------------------- MODULE RulesStoreProofs --------------------------
(***************************************************************************)
(* Proofs about RulesStore, for any number of publishes, rollbacks,        *)
(* clients, runs and processes.                                            *)
(*                                                                         *)
(* The invariant follows one publish through its three writes: what holds  *)
(* of file and metadata at each of its stages, unless another publish of   *)
(* the version makes the claim void (twice, clashed).  From a version's    *)
(* metadata on, readers and caches keep what they saw, and nothing that    *)
(* is not published again changes under them.                              *)
(***************************************************************************)
EXTENDS RulesStore, TLAPS

Busy(p) == publish[p].at \in {"writing", "describing", "activating"}

\* Two publishes of one version are counted: begun, and at it together.
CountedTogether ==
    \A p, q \in Publishes :
        p # q /\ publish[p].version = publish[q].version =>
            /\ publish[p].at # "idle" /\ publish[q].at # "idle" => publish[p].version \in twice
            /\ Busy(p) /\ Busy(q) => publish[p].version \in clashed

\* Only such publishes mix their archives.
MixedTogether ==
    \A p \in Publishes :
        publish[p].mixed => publish[p].version \in twice /\ publish[p].version \in clashed

\* A version no publish has begun has no metadata.
UntouchedIsBlank ==
    \A v \in Versions :
        (\A p \in Publishes : publish[p].version = v => publish[p].at = "idle") => meta[v] = None

\* What one publish knows of its version at each of its stages.
BlankBefore ==
    \A p \in Publishes :
        publish[p].at \in {"writing", "describing"} /\ publish[p].version \notin twice
            => meta[publish[p].version] = None

WholeAfterwards ==
    \A p \in Publishes :
        publish[p].at = "describing"
        /\ (publish[p].version \notin twice \/ publish[p].version \notin clashed)
            => file[publish[p].version] = publish[p].archive

DescribedAfterwards ==
    \A p \in Publishes :
        publish[p].at = "activating" =>
            /\ meta[publish[p].version] # None
            /\ publish[p].version \notin clashed
                   => file[publish[p].version] = meta[publish[p].version]

RollbackIsChecked ==
    \A b \in Rollbacks : rollback[b].at = "activating" => meta[rollback[b].version] # None

\* Readers know a version from its resolution on, runs alone keep rules.
ReadersKnow ==
    \A r \in Readers :
        /\ reader[r].at \in {"describing", "resolved", "caching", "got"} =>
               reader[r].version \in Versions
        /\ reader[r].at = "caching" => r \in Runs /\ reader[r].got \in Archives

\* What was described to a reader stays what the version is ...
ReadersSee ==
    \A r \in Readers :
        reader[r].at \in {"resolved", "caching", "got"} /\ reader[r].version \notin twice =>
            reader[r].sha \in Archives /\ reader[r].sha = meta[reader[r].version]

\* ... and is what it gets.
ReadersGet ==
    \A r \in Readers :
        reader[r].at \in {"caching", "got"} /\ reader[r].version \notin twice =>
            reader[r].got = reader[r].sha

CachesSee ==
    \A p \in Processes, v \in Versions :
        cache[p][v] # None /\ v \notin twice => cache[p][v] = meta[v]

\* The parts about the registry and its writers, and those about its readers.
RegistryInv ==
    /\ CountedTogether
    /\ MixedTogether
    /\ UntouchedIsBlank
    /\ BlankBefore
    /\ WholeAfterwards
    /\ DescribedAfterwards
    /\ DescribedIsWhole
    /\ QuietVersionAgrees

CurrentInv == RollbackIsChecked /\ ResolveHolds

ReaderInv == ReadersKnow /\ ReadersSee /\ ReadersGet /\ CachesSee

RulesInv == TypeOK /\ RegistryInv /\ CurrentInv /\ ReaderInv

-----------------------------------------------------------------------------
(* Facts the steps rest on.                                                *)

\* The markers are no archive and no version, and differ.
LEMMA MarkersAreApart ==
    /\ None \notin Versions /\ None \notin Archives /\ Torn \notin Archives /\ None # Torn
BY NoneAssumption

\* A step that moves publish p, and only it, to a stage.
StageBecomes(p, to) ==
    /\ publish'[p].at = to
    /\ \A q \in Publishes : /\ publish'[q].version = publish[q].version
                            /\ publish'[q].archive = publish[q].archive
                            /\ q # p => publish'[q].at = publish[q].at

MixedKept == \A q \in Publishes : publish'[q].mixed = publish[q].mixed

LEMMA GoesMoves ==
    ASSUME TypeOK, NEW p \in Publishes, NEW from, NEW to, Goes(p, from, to)
    PROVE  StageBecomes(p, to) /\ MixedKept /\ publish[p].at = from
BY DEF TypeOK, PublishStates, Goes, StageBecomes, MixedKept

LEMMA OpenMoves ==
    ASSUME TypeOK, NEW p \in Publishes, OpenFile(p)
    PROVE  /\ StageBecomes(p, "writing")
           /\ \A q \in Publishes :
                  publish'[q].mixed =>
                      \/ publish[q].mixed /\ q # p
                      \/ /\ Writing(publish[p].version) # {}
                         /\ publish[q].version = publish[p].version
<1>1. /\ publish[p].at = "idle"
      /\ publish \in [Publishes -> PublishStates]
      /\ publish' = [q \in Publishes |->
                        IF q = p
                        THEN [publish[p] EXCEPT !.at = "writing",
                                                !.mixed = Writing(publish[p].version) # {}]
                        ELSE IF q \in Writing(publish[p].version)
                        THEN [publish[q] EXCEPT !.mixed = TRUE]
                        ELSE publish[q]]
    BY DEF OpenFile, TypeOK
<1>2. ASSUME NEW q \in Publishes
      PROVE  /\ publish'[q].version = publish[q].version
             /\ publish'[q].archive = publish[q].archive
             /\ q # p => publish'[q].at = publish[q].at
    BY <1>1 DEF PublishStates
<1>3. publish'[p].at = "writing"
    BY <1>1 DEF PublishStates
<1>4. ASSUME NEW q \in Publishes, publish'[q].mixed
      PROVE  \/ publish[q].mixed /\ q # p
             \/ /\ Writing(publish[p].version) # {}
                /\ publish[q].version = publish[p].version
  <2>1. CASE q = p
    <3>1. publish'[q].mixed = (Writing(publish[p].version) # {})
        BY <1>1, <2>1 DEF PublishStates
    <3>. QED BY <3>1, <1>4, <2>1
  <2>2. CASE q # p /\ q \in Writing(publish[p].version)
        BY <2>2 DEF Writing
  <2>3. CASE q # p /\ q \notin Writing(publish[p].version)
    <3>1. publish'[q] = publish[q]
        BY <1>1, <2>3
    <3>. QED BY <3>1, <1>4, <2>3
  <2>. QED BY <2>1, <2>2, <2>3
<1>. QED BY <1>2, <1>3, <1>4 DEF StageBecomes

-----------------------------------------------------------------------------
(* Types.                                                                  *)

LEMMA TypeInit == Init => TypeOK
<1>. SUFFICES ASSUME Init
              PROVE  TypeOK
    OBVIOUS
<1>1. publish \in [Publishes -> PublishStates]
  <2>1. [at : {"idle"}, version : Versions, archive : Archives, mixed : {FALSE}]
            \subseteq PublishStates
      BY DEF PublishStates
  <2>. QED BY <2>1 DEF Init
<1>2. rollback \in [Rollbacks -> RollbackStates]
  <2>1. [at : {"idle"}, version : Versions] \subseteq RollbackStates
      BY DEF RollbackStates
  <2>. QED BY <2>1 DEF Init
<1>3. reader \in [Readers -> ReaderStates]
    BY DEF Init, ReaderStates, NoReader
<1>. QED BY <1>1, <1>2, <1>3 DEF Init, TypeOK

LEMMA TypePublishStep ==
    ASSUME TypeOK, NEW p \in Publishes, PublishStep(p)
    PROVE  TypeOK'
<1>. USE DEF TypeOK
<1>0. publish[p] \in PublishStates /\ publish[p].version \in Versions /\ publish[p].archive \in Archives
    BY DEF PublishStates
<1>1. CASE OpenFile(p)
  <2>1. publish' \in [Publishes -> PublishStates]
    <3>1. ASSUME NEW q \in Publishes
          PROVE  /\ [publish[p] EXCEPT !.at = "writing",
                                       !.mixed = Writing(publish[p].version) # {}]
                        \in PublishStates
                 /\ [publish[q] EXCEPT !.mixed = TRUE] \in PublishStates
                 /\ publish[q] \in PublishStates
        BY DEF PublishStates
    <3>. QED BY <1>1, <3>1 DEF OpenFile
  <2>2. file' \in [Versions -> Archives \cup {None, Torn}]
      BY <1>0, <1>1 DEF OpenFile
  <2>3. twice' \subseteq Versions /\ clashed' \subseteq Versions
      BY <1>0, <1>1 DEF OpenFile
  <2>. QED BY <1>1, <2>1, <2>2, <2>3 DEF OpenFile
<1>2. CASE WriteFile(p)
  <2>1. publish' \in [Publishes -> PublishStates]
      BY <1>2 DEF WriteFile, Goes, PublishStates
  <2>2. file' \in [Versions -> Archives \cup {None, Torn}]
      BY <1>0, <1>2 DEF WriteFile
  <2>. QED BY <1>2, <2>1, <2>2 DEF WriteFile
<1>3. CASE Describe(p)
      BY <1>0, <1>3 DEF Describe, Goes, PublishStates
<1>4. CASE Activate(p)
      BY <1>0, <1>4 DEF Activate, Goes, PublishStates
<1>5. CASE PublishDies(p)
      BY <1>0, <1>5 DEF PublishDies, PublishStates, registry
<1>. QED BY <1>1, <1>2, <1>3, <1>4, <1>5 DEF PublishStep

LEMMA TypeRollbackStep ==
    ASSUME TypeOK, NEW b \in Rollbacks, CheckRollback(b) \/ ActivateRollback(b)
    PROVE  TypeOK'
<1>. USE DEF TypeOK, RollbackStates
<1>1. CASE CheckRollback(b)
      BY <1>1 DEF CheckRollback, registry
<1>2. CASE ActivateRollback(b)
      BY <1>2 DEF ActivateRollback
<1>. QED BY <1>1, <1>2

LEMMA TypeReadStep ==
    ASSUME TypeOK, ReadersKnow, NEW r \in Readers, ReadStep(r)
    PROVE  TypeOK'
<1>. USE DEF TypeOK, Becomes, registry
<1>0. reader[r] \in ReaderStates /\ NoReader \in ReaderStates
    BY DEF ReaderStates, NoReader
<1>k. /\ reader[r].at \in {"describing", "resolved", "caching", "got"} => reader[r].version \in Versions
      /\ reader[r].at = "caching" => r \in Runs /\ reader[r].got \in Archives
    BY DEF ReadersKnow
<1>1. CASE ReadCurrent(r)
      BY <1>0, <1>1 DEF ReadCurrent, ReaderStates
<1>2. CASE ReadMeta(r)
  <2>1. meta[reader[r].version] \in Archives \cup {None}
      BY <1>k, <1>2 DEF ReadMeta
  <2>. QED BY <1>0, <1>2, <2>1 DEF ReadMeta, ReaderStates
<1>3. CASE Download(r)
  <2>1. file[reader[r].version] \in Archives \cup {None, Torn}
      BY <1>k, <1>3 DEF Download
  <2>. QED BY <1>0, <1>3, <2>1 DEF Download, ReaderStates
<1>4. CASE LoadCached(r)
  <2>1. Cached(ProcessOf[r], reader[r].version) \in Archives \cup {None}
      BY <1>k, <1>4, ProcessAssumption DEF LoadCached, Cached
  <2>. QED BY <1>0, <1>4, <2>1 DEF LoadCached, ReaderStates
<1>5. CASE Extract(r)
      BY <1>0, <1>5 DEF Extract, ReaderStates
<1>6. CASE StoreRules(r)
  <2>1. reader' \in [Readers -> ReaderStates]
      BY <1>0, <1>6 DEF StoreRules, ReaderStates
  <2>2. cache' \in [Processes -> [Versions -> Archives \cup {None}]]
      BY <1>k, <1>6, ProcessAssumption DEF StoreRules
  <2>. QED BY <1>6, <2>1, <2>2 DEF StoreRules
<1>. QED BY <1>1, <1>2, <1>3, <1>4, <1>5, <1>6 DEF ReadStep

LEMMA TypeStutters == TypeOK /\ UNCHANGED vars => TypeOK'
BY DEF TypeOK, vars, registry

-----------------------------------------------------------------------------
(* The registry and its writers.                                           *)

\* What a stage means does not depend on other versions: the steps below need
\* these two consequences of counting.
LEMMA AloneOnce ==
    ASSUME CountedTogether, NEW p \in Publishes, NEW q \in Publishes,
           publish[p].at # "idle", publish[q].at # "idle",
           publish[p].version = publish[q].version, publish[p].version \notin twice
    PROVE  p = q
BY DEF CountedTogether

LEMMA AloneUnlessClashed ==
    ASSUME CountedTogether, NEW p \in Publishes, NEW q \in Publishes, Busy(p), Busy(q),
           publish[p].version = publish[q].version, publish[p].version \notin clashed
    PROVE  p = q
BY DEF CountedTogether

LEMMA UnderwayIsBusy ==
    ASSUME NEW v
    PROVE  /\ Underway(v) = {p \in Publishes : publish[p].version = v /\ Busy(p)}
           /\ Writing(v) \subseteq Underway(v)
           /\ Underway(v) \subseteq Begun(v)
BY DEF Underway, Busy, Writing, Begun

LEMMA OpenKeepsCounts ==
    ASSUME TypeOK, RegistryInv, NEW p \in Publishes, OpenFile(p)
    PROVE  CountedTogether' /\ MixedTogether'
<1>. DEFINE v == publish[p].version
<1>1. StageBecomes(p, "writing")
    BY OpenMoves
<1>2. publish[p].at = "idle" /\ twice \subseteq twice' /\ clashed \subseteq clashed'
    BY DEF OpenFile
<1>3. ASSUME NEW q \in Publishes, q # p, publish[q].version = v
      PROVE  /\ publish[q].at # "idle" => v \in twice'
             /\ Busy(q) => v \in clashed'
  <2>1. publish[q].at # "idle" => Begun(v) # {}
      BY <1>3 DEF Begun
  <2>2. Busy(q) => Underway(v) # {}
      BY <1>3 DEF Underway, Busy
  <2>. QED BY <2>1, <2>2 DEF OpenFile
<1>4. CountedTogether'
  <2>. SUFFICES ASSUME NEW q \in Publishes, NEW w \in Publishes, q # w,
                       publish'[q].version = publish'[w].version
                PROVE  /\ publish'[q].at # "idle" /\ publish'[w].at # "idle" =>
                              publish'[q].version \in twice'
                       /\ Busy(q)' /\ Busy(w)' => publish'[q].version \in clashed'
      BY DEF CountedTogether
  <2>1. publish[q].version = publish[w].version /\ publish'[q].version = publish[q].version
      BY <1>1 DEF StageBecomes
  <2>2. CASE q = p
      BY <1>1, <1>3, <2>1, <2>2 DEF StageBecomes, Busy
  <2>3. CASE w = p
      BY <1>1, <1>3, <2>1, <2>3 DEF StageBecomes, Busy
  <2>4. CASE q # p /\ w # p
      BY <1>1, <1>2, <2>1, <2>4 DEF StageBecomes, Busy, RegistryInv, CountedTogether
  <2>. QED BY <2>2, <2>3, <2>4
<1>5. MixedTogether'
  <2>. SUFFICES ASSUME NEW q \in Publishes, publish'[q].mixed
                PROVE  publish'[q].version \in twice' /\ publish'[q].version \in clashed'
      BY DEF MixedTogether
  <2>1. publish'[q].version = publish[q].version
      BY <1>1 DEF StageBecomes
  <2>2. CASE publish[q].mixed
      BY <1>2, <2>1, <2>2 DEF RegistryInv, MixedTogether
  <2>3. CASE Writing(v) # {} /\ publish[q].version = v
    <3>1. Underway(v) # {} /\ Begun(v) # {}
        BY <2>3, UnderwayIsBusy
    <3>2. twice' = twice \cup {v} /\ clashed' = clashed \cup {v}
      <4>1. twice' = (IF Begun(v) # {} THEN twice \cup {v} ELSE twice)
          BY DEF OpenFile
      <4>2. clashed' = (IF Underway(v) # {} THEN clashed \cup {v} ELSE clashed)
          BY DEF OpenFile
      <4>. QED BY <3>1, <4>1, <4>2
    <3>3. publish'[q].version = v
        BY <2>1, <2>3
    <3>. QED BY <3>2, <3>3
  <2>. QED BY <2>2, <2>3, OpenMoves
<1>. QED BY <1>4, <1>5

LEMMA OtherStepsKeepCounts ==
    ASSUME TypeOK, RegistryInv, NEW p \in Publishes, NEW to, StageBecomes(p, to), MixedKept,
           publish[p].at # "idle",
           to # "writing", to \in {"describing", "activating"} => Busy(p),
           twice' = twice, clashed \subseteq clashed'
    PROVE  CountedTogether' /\ MixedTogether'
<1>1. CountedTogether'
  <2>. SUFFICES ASSUME NEW q \in Publishes, NEW w \in Publishes, q # w,
                       publish'[q].version = publish'[w].version
                PROVE  /\ publish'[q].at # "idle" /\ publish'[w].at # "idle" =>
                              publish'[q].version \in twice'
                       /\ Busy(q)' /\ Busy(w)' => publish'[q].version \in clashed'
      BY DEF CountedTogether
  <2>1. publish[q].version = publish[w].version /\ publish'[q].version = publish[q].version
      BY DEF StageBecomes
  <2>2. ASSUME NEW x \in Publishes
        PROVE  /\ publish'[x].at # "idle" => publish[x].at # "idle"
               /\ Busy(x)' => Busy(x)
      BY DEF StageBecomes, Busy
  <2>. QED BY <2>1, <2>2 DEF RegistryInv, CountedTogether
<1>2. MixedTogether'
    BY DEF RegistryInv, MixedTogether, MixedKept, StageBecomes
<1>. QED BY <1>1, <1>2

LEMMA OpenKeepsStages ==
    ASSUME TypeOK, RegistryInv, NEW p \in Publishes, OpenFile(p)
    PROVE  /\ UntouchedIsBlank' /\ BlankBefore' /\ WholeAfterwards' /\ DescribedAfterwards'
           /\ DescribedIsWhole' /\ QuietVersionAgrees'
<1>. DEFINE v == publish[p].version
<1>1. StageBecomes(p, "writing")
    BY OpenMoves
<1>2. /\ publish[p].at = "idle" /\ v \in Versions /\ meta' = meta
      /\ file' = [file EXCEPT ![v] = Torn]
      /\ twice \subseteq twice' /\ clashed \subseteq clashed'
    BY DEF OpenFile, TypeOK, PublishStates
<1>3. ASSUME v \notin twice'
      PROVE  Begun(v) = {} /\ meta[v] = None
  <2>1. Begun(v) = {}
      BY <1>3 DEF OpenFile
  <2>2. \A q \in Publishes : publish[q].version = v => publish[q].at = "idle"
      BY <2>1 DEF Begun
  <2>. QED BY <1>2, <2>1, <2>2 DEF RegistryInv, UntouchedIsBlank
<1>4. v \notin clashed' => Underway(v) = {}
    BY DEF OpenFile
<1>5. UntouchedIsBlank'
  <2>. SUFFICES ASSUME NEW w \in Versions,
                       \A q \in Publishes : publish'[q].version = w => publish'[q].at = "idle"
                PROVE  meta'[w] = None
      BY DEF UntouchedIsBlank
  <2>1. \A q \in Publishes : publish[q].version = w => publish[q].at = "idle"
      BY <1>1, <1>2 DEF StageBecomes
  <2>. QED BY <1>2, <2>1 DEF RegistryInv, UntouchedIsBlank
<1>6. BlankBefore'
  <2>. SUFFICES ASSUME NEW q \in Publishes, publish'[q].at \in {"writing", "describing"},
                       publish'[q].version \notin twice'
                PROVE  meta'[publish'[q].version] = None
      BY DEF BlankBefore
  <2>1. CASE publish[q].version = v
      BY <1>1, <1>2, <1>3, <2>1 DEF StageBecomes
  <2>2. CASE publish[q].version # v
      BY <1>1, <1>2, <2>2 DEF StageBecomes, RegistryInv, BlankBefore
  <2>. QED BY <2>1, <2>2
<1>7. ASSUME NEW q \in Publishes, q # p, publish[q].at \in {"describing", "activating"},
             publish[q].version = v
      PROVE  v \in twice' /\ v \in clashed'
  <2>1. q \in Underway(v) /\ q \in Begun(v)
      BY <1>7 DEF Underway, Begun
  <2>. QED BY <1>3, <1>4, <2>1
<1>8. WholeAfterwards'
  <2>. SUFFICES ASSUME NEW q \in Publishes, publish'[q].at = "describing",
                       publish'[q].version \notin twice' \/ publish'[q].version \notin clashed'
                PROVE  file'[publish'[q].version] = publish'[q].archive
      BY DEF WholeAfterwards
  <2>1. q # p /\ publish[q].at = "describing" /\ publish[q].version # v
      BY <1>1, <1>7 DEF StageBecomes
  <2>2. publish[q].version \in Versions
      BY DEF TypeOK, PublishStates
  <2>. QED BY <1>1, <1>2, <2>1, <2>2 DEF StageBecomes, RegistryInv, WholeAfterwards, TypeOK
<1>9. DescribedAfterwards'
  <2>. SUFFICES ASSUME NEW q \in Publishes, publish'[q].at = "activating"
                PROVE  /\ meta'[publish'[q].version] # None
                       /\ publish'[q].version \notin clashed'
                              => file'[publish'[q].version] = meta'[publish'[q].version]
      BY DEF DescribedAfterwards
  <2>1. q # p /\ publish[q].at = "activating" /\ publish'[q].version = publish[q].version
      BY <1>1 DEF StageBecomes
  <2>2. publish[q].version \in Versions
      BY DEF TypeOK, PublishStates
  <2>3. /\ meta[publish[q].version] # None
        /\ publish[q].version \notin clashed => file[publish[q].version] = meta[publish[q].version]
      BY <2>1 DEF RegistryInv, DescribedAfterwards
  <2>4. CASE publish[q].version = v
      BY <1>2, <1>7, <2>1, <2>3, <2>4
  <2>5. CASE publish[q].version # v
      BY <1>2, <2>1, <2>2, <2>3, <2>5 DEF TypeOK
  <2>. QED BY <2>4, <2>5
<1>10. DescribedIsWhole'
    BY <1>2, <1>3 DEF RegistryInv, DescribedIsWhole, TypeOK
<1>11. QuietVersionAgrees'
  <2>. SUFFICES ASSUME NEW w \in Versions, w \notin clashed', Underway(w)' = {}
                PROVE  file'[w] = meta'[w]
      BY DEF QuietVersionAgrees
  <2>1. w # v
    <3>1. w = v => p \in Underway(w)'
        BY <1>1 DEF Underway, StageBecomes
    <3>. QED BY <3>1
  <2>2. Underway(w) = {}
      BY <1>1, <1>2 DEF Underway, StageBecomes
  <2>. QED BY <1>2, <2>1, <2>2 DEF RegistryInv, QuietVersionAgrees, TypeOK
<1>. QED BY <1>5, <1>6, <1>8, <1>9, <1>10, <1>11

\* The other steps of p leave all files and metadata but those of its version, and
\* what they must show of that version is this.
LEMMA StagesFollow ==
    ASSUME TypeOK, RegistryInv, NEW p \in Publishes,
           NEW to \in {"describing", "activating", "done", "dead"},
           StageBecomes(p, to), Busy(p), twice' = twice, clashed \subseteq clashed',
           \A w \in Versions : w # publish[p].version => file'[w] = file[w] /\ meta'[w] = meta[w],
           to = "describing" =>
               /\ publish[p].version \notin twice => meta'[publish[p].version] = None
               /\ publish[p].version \notin twice \/ publish[p].version \notin clashed =>
                      file'[publish[p].version] = publish[p].archive,
           meta[publish[p].version] # None \/ to = "activating" => meta'[publish[p].version] # None,
           to # "describing" /\ publish[p].version \notin clashed' =>
               file'[publish[p].version] = meta'[publish[p].version],
           publish[p].version \notin twice /\ meta'[publish[p].version] # None =>
               file'[publish[p].version] = meta'[publish[p].version]
    PROVE  /\ UntouchedIsBlank' /\ BlankBefore' /\ WholeAfterwards' /\ DescribedAfterwards'
           /\ DescribedIsWhole' /\ QuietVersionAgrees'
<1>. DEFINE v == publish[p].version
<1>0. v \in Versions /\ (\A q \in Publishes : publish[q].version \in Versions)
    BY DEF TypeOK, PublishStates
<1>a. ASSUME NEW q \in Publishes, q # p
      PROVE  /\ publish'[q].at = publish[q].at /\ publish'[q].version = publish[q].version
             /\ publish'[q].archive = publish[q].archive
    BY <1>a DEF StageBecomes
<1>b. publish'[p].at = to /\ publish'[p].version = v /\ publish'[p].archive = publish[p].archive
    BY DEF StageBecomes
<1>c. ASSUME NEW q \in Publishes, q # p, publish[q].version = v, Busy(q)
      PROVE  v \in twice /\ v \in clashed
    BY <1>c DEF RegistryInv, CountedTogether, Busy
<1>1. UntouchedIsBlank'
  <2>. SUFFICES ASSUME NEW w \in Versions,
                       \A q \in Publishes : publish'[q].version = w => publish'[q].at = "idle"
                PROVE  meta'[w] = None
      BY DEF UntouchedIsBlank
  <2>1. w # v
      BY <1>b
  <2>2. \A q \in Publishes : publish[q].version = w => publish[q].at = "idle"
      BY <1>a, <2>1
  <2>. QED BY <2>1, <2>2 DEF RegistryInv, UntouchedIsBlank
<1>2. BlankBefore'
  <2>. SUFFICES ASSUME NEW q \in Publishes, publish'[q].at \in {"writing", "describing"},
                       publish'[q].version \notin twice'
                PROVE  meta'[publish'[q].version] = None
      BY DEF BlankBefore
  <2>1. CASE q = p
      BY <1>b, <2>1
  <2>2. CASE q # p
    <3>1. Busy(q) /\ publish[q].version \notin twice /\ publish'[q].version = publish[q].version
        BY <1>a, <2>2 DEF Busy
    <3>2. publish[q].version # v
        BY <1>c, <2>2, <3>1
    <3>3. meta[publish[q].version] = None
        BY <1>a, <2>2, <3>1 DEF RegistryInv, BlankBefore
    <3>. QED BY <1>0, <3>1, <3>2, <3>3
  <2>. QED BY <2>1, <2>2
<1>3. WholeAfterwards'
  <2>. SUFFICES ASSUME NEW q \in Publishes, publish'[q].at = "describing",
                       publish'[q].version \notin twice' \/ publish'[q].version \notin clashed'
                PROVE  file'[publish'[q].version] = publish'[q].archive
      BY DEF WholeAfterwards
  <2>1. CASE q = p
      BY <1>b, <2>1
  <2>2. CASE q # p
    <3>1. /\ Busy(q) /\ publish[q].at = "describing"
          /\ publish[q].version \notin twice \/ publish[q].version \notin clashed
          /\ publish'[q].version = publish[q].version /\ publish'[q].archive = publish[q].archive
        BY <1>a, <2>2 DEF Busy
    <3>2. publish[q].version # v
        BY <1>c, <2>2, <3>1
    <3>3. file[publish[q].version] = publish[q].archive
        BY <3>1 DEF RegistryInv, WholeAfterwards
    <3>. QED BY <1>0, <3>1, <3>2, <3>3
  <2>. QED BY <2>1, <2>2
<1>4. DescribedAfterwards'
  <2>. SUFFICES ASSUME NEW q \in Publishes, publish'[q].at = "activating"
                PROVE  /\ meta'[publish'[q].version] # None
                       /\ publish'[q].version \notin clashed'
                              => file'[publish'[q].version] = meta'[publish'[q].version]
      BY DEF DescribedAfterwards
  <2>1. CASE q = p
      BY <1>b, <2>1
  <2>2. CASE q # p
    <3>1. /\ Busy(q) /\ publish[q].at = "activating"
          /\ publish'[q].version = publish[q].version
        BY <1>a, <2>2 DEF Busy
    <3>2. /\ meta[publish[q].version] # None
          /\ publish[q].version \notin clashed
                 => file[publish[q].version] = meta[publish[q].version]
        BY <3>1 DEF RegistryInv, DescribedAfterwards
    <3>3. CASE publish[q].version = v
        BY <1>c, <2>2, <3>1, <3>2, <3>3
    <3>4. CASE publish[q].version # v
        BY <1>0, <3>1, <3>2, <3>4
    <3>. QED BY <3>3, <3>4
  <2>. QED BY <2>1, <2>2
<1>5. DescribedIsWhole'
    BY DEF RegistryInv, DescribedIsWhole
<1>6. QuietVersionAgrees'
  <2>. SUFFICES ASSUME NEW w \in Versions, w \notin clashed', Underway(w)' = {}
                PROVE  file'[w] = meta'[w]
      BY DEF QuietVersionAgrees
  <2>1. CASE w = v
    <3>1. ~(to \in {"describing", "activating"})
      <4>1. w = v /\ to \in {"describing", "activating"} => p \in Underway(w)'
          BY <1>b DEF Underway
      <4>. QED BY <2>1, <4>1
    <3>. QED BY <2>1, <3>1
  <2>2. CASE w # v
    <3>1. Underway(w) = {}
      <4>1. ASSUME NEW q \in Underway(w)
            PROVE  q \in Underway(w)'
          BY <1>a, <1>b, <2>2 DEF Underway
      <4>. QED BY <4>1
    <3>. QED BY <2>2, <3>1 DEF RegistryInv, QuietVersionAgrees
  <2>. QED BY <2>1, <2>2
<1>. QED BY <1>1, <1>2, <1>3, <1>4, <1>5, <1>6

LEMMA PublishKeepsRegistry ==
    ASSUME TypeOK, RegistryInv, NEW p \in Publishes, PublishStep(p)
    PROVE  RegistryInv'
<1>. DEFINE v == publish[p].version
<1>0. /\ v \in Versions /\ publish[p].archive \in Archives /\ publish[p].mixed \in BOOLEAN
      /\ file \in [Versions -> Archives \cup {None, Torn}] /\ meta \in [Versions -> Archives \cup {None}]
    BY DEF TypeOK, PublishStates
<1>1. CASE OpenFile(p)
    BY <1>1, OpenKeepsCounts, OpenKeepsStages DEF RegistryInv
<1>2. CASE WriteFile(p)
  <2>1. /\ StageBecomes(p, "describing") /\ MixedKept
        /\ publish[p].at = "writing" /\ Busy(p) /\ publish[p].at # "idle"
      BY <1>2, GoesMoves DEF WriteFile, Busy
  <2>2. meta' = meta /\ twice' = twice /\ clashed' = clashed
      BY <1>2 DEF WriteFile
  <2>3. PICK content \in {publish[p].archive} \cup (IF publish[p].mixed THEN {Torn} ELSE {}) :
            file' = [file EXCEPT ![v] = content]
      BY <1>2 DEF WriteFile
  <2>4. v \notin twice \/ v \notin clashed => file'[v] = publish[p].archive
    <3>1. v \notin twice \/ v \notin clashed => ~publish[p].mixed
        BY DEF RegistryInv, MixedTogether
    <3>2. ~publish[p].mixed => content = publish[p].archive
        BY <2>3
    <3>3. file'[v] = content
        BY <1>0, <2>3
    <3>. QED BY <3>1, <3>2, <3>3
  <2>5. v \notin twice => meta'[v] = None
      BY <2>1, <2>2 DEF RegistryInv, BlankBefore
  <2>6. \A w \in Versions : w # v => file'[w] = file[w] /\ meta'[w] = meta[w]
      BY <1>0, <2>2, <2>3
  <2>7. /\ UntouchedIsBlank' /\ BlankBefore' /\ WholeAfterwards' /\ DescribedAfterwards'
        /\ DescribedIsWhole' /\ QuietVersionAgrees'
      BY <2>1, <2>2, <2>4, <2>5, <2>6, StagesFollow
  <2>8. CountedTogether' /\ MixedTogether'
      BY <2>1, <2>2, OtherStepsKeepCounts
  <2>. QED BY <2>7, <2>8 DEF RegistryInv
<1>3. CASE Describe(p)
  <2>1. /\ StageBecomes(p, "activating") /\ MixedKept
        /\ publish[p].at = "describing" /\ Busy(p) /\ publish[p].at # "idle"
      BY <1>3, GoesMoves DEF Describe, Busy
  <2>2. /\ file' = file /\ meta' = [meta EXCEPT ![v] = publish[p].archive]
        /\ twice' = twice /\ clashed' = clashed
      BY <1>3 DEF Describe
  <2>3. v \notin twice \/ v \notin clashed => file'[v] = meta'[v]
      BY <1>0, <2>1, <2>2 DEF RegistryInv, WholeAfterwards
  <2>4. meta'[v] # None
      BY <1>0, <2>2, MarkersAreApart
  <2>5. \A w \in Versions : w # v => file'[w] = file[w] /\ meta'[w] = meta[w]
      BY <1>0, <2>2
  <2>6. /\ UntouchedIsBlank' /\ BlankBefore' /\ WholeAfterwards' /\ DescribedAfterwards'
        /\ DescribedIsWhole' /\ QuietVersionAgrees'
      BY <2>1, <2>2, <2>3, <2>4, <2>5, StagesFollow
  <2>7. CountedTogether' /\ MixedTogether'
      BY <2>1, <2>2, OtherStepsKeepCounts
  <2>. QED BY <2>6, <2>7 DEF RegistryInv
<1>4. CASE Activate(p)
  <2>1. /\ StageBecomes(p, "done") /\ MixedKept
        /\ publish[p].at = "activating" /\ Busy(p) /\ publish[p].at # "idle"
      BY <1>4, GoesMoves DEF Activate, Busy
  <2>2. file' = file /\ meta' = meta /\ twice' = twice /\ clashed' = clashed
      BY <1>4 DEF Activate
  <2>3. v \notin clashed => file'[v] = meta'[v]
      BY <2>1, <2>2 DEF RegistryInv, DescribedAfterwards
  <2>4. v \notin twice /\ meta'[v] # None => file'[v] = meta'[v]
      BY <1>0, <2>2 DEF RegistryInv, DescribedIsWhole
  <2>5. /\ UntouchedIsBlank' /\ BlankBefore' /\ WholeAfterwards' /\ DescribedAfterwards'
        /\ DescribedIsWhole' /\ QuietVersionAgrees'
      BY <2>1, <2>2, <2>3, <2>4, StagesFollow
  <2>6. CountedTogether' /\ MixedTogether'
      BY <2>1, <2>2, OtherStepsKeepCounts
  <2>. QED BY <2>5, <2>6 DEF RegistryInv
<1>5. CASE PublishDies(p)
  <2>1. /\ StageBecomes(p, "dead") /\ MixedKept /\ Busy(p) /\ publish[p].at # "idle"
      BY <1>5 DEF PublishDies, Busy, TypeOK, PublishStates, StageBecomes, MixedKept
  <2>2. file' = file /\ meta' = meta /\ twice' = twice /\ clashed' = clashed \cup {v}
      BY <1>5 DEF PublishDies, registry
  <2>3. v \notin twice /\ meta'[v] # None => file'[v] = meta'[v]
      BY <1>0, <2>2 DEF RegistryInv, DescribedIsWhole
  <2>4. clashed \subseteq clashed' /\ v \in clashed'
      BY <2>2
  <2>5. /\ UntouchedIsBlank' /\ BlankBefore' /\ WholeAfterwards' /\ DescribedAfterwards'
        /\ DescribedIsWhole' /\ QuietVersionAgrees'
      BY <2>1, <2>2, <2>3, <2>4, StagesFollow
  <2>6. CountedTogether' /\ MixedTogether'
      BY <2>1, <2>2, <2>4, OtherStepsKeepCounts
  <2>. QED BY <2>5, <2>6 DEF RegistryInv
<1>. QED BY <1>1, <1>2, <1>3, <1>4, <1>5 DEF PublishStep

\* Whatever leaves files, metadata and publishes alone leaves all of it alone.
LEMMA OthersKeepRegistry ==
    ASSUME RegistryInv, UNCHANGED <<meta, file, publish, twice, clashed>>
    PROVE  RegistryInv'
BY DEF RegistryInv, CountedTogether, MixedTogether, UntouchedIsBlank, BlankBefore,
       WholeAfterwards, DescribedAfterwards, DescribedIsWhole, QuietVersionAgrees, Busy, Underway

-----------------------------------------------------------------------------
(* The current key.                                                        *)

\* Metadata are replaced but never removed, and not while nobody publishes the
\* version again.
MetaGrows ==
    \A v \in Versions :
        meta[v] # None =>
            /\ meta'[v] # None
            /\ v \notin twice' => meta'[v] = meta[v]

LEMMA MetaStays ==
    ASSUME MetaGrows, NEW v \in Versions, meta[v] # None
    PROVE  meta'[v] # None /\ (v \notin twice' => meta'[v] = meta[v])
BY DEF MetaGrows

LEMMA PublishGrowsMeta ==
    ASSUME TypeOK, RegistryInv, NEW p \in Publishes, PublishStep(p)
    PROVE  MetaGrows /\ twice \subseteq twice'
<1>0. publish[p].version \in Versions /\ publish[p].archive \in Archives
      /\ meta \in [Versions -> Archives \cup {None}]
    BY DEF TypeOK, PublishStates
<1>1. CASE Describe(p)
  <2>1. /\ meta' = [meta EXCEPT ![publish[p].version] = publish[p].archive] /\ twice' = twice
        /\ publish[p].at = "describing"
      BY <1>1 DEF Describe, Goes
  <2>2. publish[p].version \notin twice => meta[publish[p].version] = None
      BY <2>1 DEF RegistryInv, BlankBefore
  <2>. QED BY <1>0, <2>1, <2>2, MarkersAreApart DEF MetaGrows
<1>2. CASE OpenFile(p) \/ WriteFile(p) \/ Activate(p) \/ PublishDies(p)
    BY <1>2 DEF OpenFile, WriteFile, Activate, PublishDies, registry, MetaGrows
<1>. QED BY <1>1, <1>2 DEF PublishStep

LEMMA PublishKeepsCurrent ==
    ASSUME TypeOK, RegistryInv, CurrentInv, ReadersKnow, NEW p \in Publishes, PublishStep(p)
    PROVE  CurrentInv'
<1>1. MetaGrows
    BY PublishGrowsMeta
<1>2. rollback' = rollback /\ reader' = reader
    BY DEF PublishStep, OpenFile, WriteFile, Describe, Activate, PublishDies
<1>3. RollbackIsChecked'
  <2>. SUFFICES ASSUME NEW b \in Rollbacks, rollback[b].at = "activating"
                PROVE  meta'[rollback[b].version] # None
      BY <1>2 DEF RollbackIsChecked
  <2>1. rollback[b].version \in Versions
      BY DEF TypeOK, RollbackStates
  <2>2. meta[rollback[b].version] # None
      BY DEF CurrentInv, RollbackIsChecked
  <2>. QED BY <1>1, <2>1, <2>2, MetaStays
<1>4. current' = current \/ meta'[current'] # None
  <2>1. CASE Activate(p)
    <3>1. current' = publish[p].version /\ meta' = meta /\ publish[p].at = "activating"
        BY <2>1 DEF Activate, Goes
    <3>. QED BY <3>1 DEF RegistryInv, DescribedAfterwards
  <2>2. CASE OpenFile(p) \/ WriteFile(p) \/ Describe(p) \/ PublishDies(p)
      BY <2>2 DEF OpenFile, WriteFile, Describe, PublishDies, registry
  <2>. QED BY <2>1, <2>2 DEF PublishStep
<1>5. ResolveHolds'
  <2>1. current \in Versions \cup {None}
      BY DEF TypeOK
  <2>2. current' # None => meta'[current'] # None
    <3>1. current # None => meta[current] # None
        BY DEF CurrentInv, ResolveHolds
    <3>. QED BY <1>1, <1>4, <2>1, <3>1, MetaStays
  <2>3. ASSUME NEW r \in Readers, reader[r].at = "describing"
        PROVE  meta'[reader[r].version] # None
    <3>1. reader[r].version \in Versions
        BY <2>3 DEF ReadersKnow
    <3>2. meta[reader[r].version] # None
        BY <2>3 DEF CurrentInv, ResolveHolds
    <3>. QED BY <1>1, <3>1, <3>2, MetaStays
  <2>. QED BY <1>2, <2>2, <2>3 DEF ResolveHolds
<1>. QED BY <1>3, <1>5 DEF CurrentInv

LEMMA RollbackKeepsCurrent ==
    ASSUME TypeOK, CurrentInv, NEW b \in Rollbacks, CheckRollback(b) \/ ActivateRollback(b)
    PROVE  CurrentInv'
<1>0. rollback \in [Rollbacks -> RollbackStates]
    BY DEF TypeOK
<1>1. CASE CheckRollback(b)
  <2>1. /\ rollback' = [rollback EXCEPT ![b].at =
                           IF IsKnown(rollback[b].version) THEN "activating" ELSE "refused"]
        /\ UNCHANGED <<current, meta, reader>>
      BY <1>1 DEF CheckRollback, registry
  <2>2. RollbackIsChecked'
    <3>. SUFFICES ASSUME NEW c \in Rollbacks, rollback'[c].at = "activating"
                  PROVE  meta'[rollback'[c].version] # None
        BY DEF RollbackIsChecked
    <3>1. CASE c = b
        BY <1>0, <2>1, <3>1 DEF IsKnown, RollbackStates
    <3>2. CASE c # b
        BY <1>0, <2>1, <3>2 DEF CurrentInv, RollbackIsChecked
    <3>. QED BY <3>1, <3>2
  <2>3. ResolveHolds'
      BY <2>1 DEF CurrentInv, ResolveHolds
  <2>. QED BY <2>2, <2>3 DEF CurrentInv
<1>2. CASE ActivateRollback(b)
  <2>1. /\ rollback[b].at = "activating" /\ current' = rollback[b].version
        /\ rollback' = [rollback EXCEPT ![b].at = "done"]
        /\ UNCHANGED <<meta, reader>>
      BY <1>2 DEF ActivateRollback
  <2>2. meta[rollback[b].version] # None
      BY <2>1 DEF CurrentInv, RollbackIsChecked
  <2>3. RollbackIsChecked'
      BY <1>0, <2>1 DEF CurrentInv, RollbackIsChecked, RollbackStates
  <2>4. ResolveHolds'
      BY <2>1, <2>2 DEF CurrentInv, ResolveHolds
  <2>. QED BY <2>3, <2>4 DEF CurrentInv
<1>. QED BY <1>1, <1>2

-----------------------------------------------------------------------------
(* Readers.                                                                *)

\* Writers do not disturb what readers and caches have seen.
LEMMA PublishKeepsReaders ==
    ASSUME TypeOK, RegistryInv, ReaderInv, NEW p \in Publishes, PublishStep(p)
    PROVE  ReaderInv'
<1>1. MetaGrows /\ twice \subseteq twice'
    BY PublishGrowsMeta
<1>2. reader' = reader /\ cache' = cache
    BY DEF PublishStep, OpenFile, WriteFile, Describe, Activate, PublishDies
<1>3. ReadersKnow' /\ ReadersGet'
    BY <1>1, <1>2 DEF ReaderInv, ReadersKnow, ReadersGet
<1>4. ReadersSee'
  <2>. SUFFICES ASSUME NEW r \in Readers, reader[r].at \in {"resolved", "caching", "got"},
                       reader[r].version \notin twice'
                PROVE  reader[r].sha \in Archives /\ reader[r].sha = meta'[reader[r].version]
      BY <1>2 DEF ReadersSee
  <2>1. reader[r].sha \in Archives /\ reader[r].sha = meta[reader[r].version]
      BY <1>1 DEF ReaderInv, ReadersSee
  <2>2. reader[r].version \in Versions
      BY DEF ReaderInv, ReadersKnow
  <2>3. meta[reader[r].version] # None
      BY <2>1, MarkersAreApart
  <2>. QED BY <1>1, <2>1, <2>2, <2>3, MetaStays
<1>5. CachesSee'
  <2>. SUFFICES ASSUME NEW q \in Processes, NEW v \in Versions, cache[q][v] # None, v \notin twice'
                PROVE  cache[q][v] = meta'[v]
      BY <1>2 DEF CachesSee
  <2>1. cache[q][v] = meta[v]
      BY <1>1 DEF ReaderInv, CachesSee
  <2>. QED BY <1>1, <2>1, MetaStays
<1>. QED BY <1>3, <1>4, <1>5 DEF ReaderInv

\* The step of one reader: what it must show of its new state.
LEMMA OneReaderMoves ==
    ASSUME TypeOK, ReaderInv, NEW r \in Readers, NEW state, Becomes(r, state), cache' = cache,
           state.at \in {"describing", "resolved", "caching", "got"} => state.version \in Versions,
           state.at = "caching" => r \in Runs /\ state.got \in Archives,
           state.at \in {"resolved", "caching", "got"} /\ state.version \notin twice =>
               state.sha \in Archives /\ state.sha = meta[state.version],
           state.at \in {"caching", "got"} /\ state.version \notin twice => state.got = state.sha
    PROVE  ReaderInv'
<1>1. /\ reader' = [reader EXCEPT ![r] = state] /\ reader \in [Readers -> ReaderStates]
      /\ meta' = meta /\ twice' = twice
    BY DEF Becomes, registry, TypeOK
<1>2. reader'[r] = state /\ \A q \in Readers : q # r => reader'[q] = reader[q]
    BY <1>1
<1>3. ReadersKnow'
    BY <1>2 DEF ReaderInv, ReadersKnow
<1>4. ReadersSee'
    BY <1>1, <1>2 DEF ReaderInv, ReadersSee
<1>5. ReadersGet'
    BY <1>1, <1>2 DEF ReaderInv, ReadersGet
<1>6. CachesSee'
    BY <1>1 DEF ReaderInv, CachesSee
<1>. QED BY <1>3, <1>4, <1>5, <1>6 DEF ReaderInv

LEMMA ReadKeepsReaders ==
    ASSUME TypeOK, DescribedIsWhole, ResolveHolds, ReaderInv, NEW r \in Readers, ReadStep(r)
    PROVE  ReaderInv'
<1>0. /\ reader[r] \in ReaderStates /\ reader \in [Readers -> ReaderStates]
      /\ current \in Versions \cup {None} /\ meta \in [Versions -> Archives \cup {None}]
      /\ cache \in [Processes -> [Versions -> Archives \cup {None}]]
    BY DEF TypeOK
<1>k. /\ reader[r].at \in {"describing", "resolved", "caching", "got"} => reader[r].version \in Versions
      /\ reader[r].at = "caching" => r \in Runs /\ reader[r].got \in Archives
    BY DEF ReaderInv, ReadersKnow
<1>s. reader[r].at \in {"resolved", "caching", "got"} /\ reader[r].version \notin twice =>
          reader[r].sha \in Archives /\ reader[r].sha = meta[reader[r].version]
    BY DEF ReaderInv, ReadersSee
<1>g. reader[r].at \in {"caching", "got"} /\ reader[r].version \notin twice =>
          reader[r].got = reader[r].sha
    BY DEF ReaderInv, ReadersGet
<1>1. CASE ReadCurrent(r)
  <2>. DEFINE state == [NoReader EXCEPT !.at = IF current = None THEN "failed" ELSE "describing",
                                        !.version = current]
  <2>1. Becomes(r, state) /\ cache' = cache
      BY <1>1 DEF ReadCurrent
  <2>2. state.at \in {"failed", "describing"} /\ (state.at = "describing" => state.version \in Versions)
      BY <1>0 DEF NoReader
  <2>. HIDE DEF state
  <2>. QED BY <2>1, <2>2, OneReaderMoves
<1>2. CASE ReadMeta(r)
  <2>. DEFINE known == meta[reader[r].version]
              state == [reader[r] EXCEPT !.at = IF known = None THEN "failed" ELSE "resolved",
                                         !.sha = known]
  <2>1. Becomes(r, state) /\ cache' = cache /\ reader[r].at = "describing"
      BY <1>2 DEF ReadMeta
  <2>2. /\ state.at \in {"failed", "resolved"} /\ state.version = reader[r].version
        /\ state.sha = known /\ (state.at = "resolved" => known # None)
      BY <1>0 DEF ReaderStates
  <2>3. known \in Archives \cup {None}
      BY <1>0, <1>k, <2>1
  <2>4. state.at = "resolved" => state.sha \in Archives /\ state.sha = meta[state.version]
      BY <2>2, <2>3
  <2>5. state.at = "resolved" => state.version \in Versions
      BY <1>k, <2>1, <2>2
  <2>. HIDE DEF state, known
  <2>. QED BY <2>1, <2>2, <2>4, <2>5, OneReaderMoves
<1>3. CASE Download(r)
  <2>. DEFINE found == file[reader[r].version]
              state == [reader[r] EXCEPT !.at = IF found = None THEN "failed" ELSE "got",
                                         !.got = found]
  <2>1. Becomes(r, state) /\ cache' = cache /\ reader[r].at = "resolved"
      BY <1>3 DEF Download
  <2>2. /\ state.at \in {"failed", "got"} /\ state.version = reader[r].version
        /\ state.sha = reader[r].sha /\ state.got = found
      BY <1>0 DEF ReaderStates
  <2>3. reader[r].version \in Versions
      BY <1>k, <2>1
  <2>4. reader[r].version \notin twice => found = reader[r].sha
      BY <1>s, <2>1, <2>3, MarkersAreApart DEF DescribedIsWhole
  <2>. HIDE DEF state, found
  <2>. QED BY <1>s, <2>1, <2>2, <2>3, <2>4, OneReaderMoves
<1>4. CASE LoadCached(r)
  <2>. DEFINE rules == Cached(ProcessOf[r], reader[r].version)
              state == [reader[r] EXCEPT !.at = "got", !.got = rules]
  <2>1. /\ Becomes(r, state) /\ cache' = cache /\ reader[r].at = "resolved"
        /\ r \in Runs /\ rules # None
      BY <1>4 DEF LoadCached
  <2>2. /\ state.at = "got" /\ state.version = reader[r].version
        /\ state.sha = reader[r].sha /\ state.got = rules
      BY <1>0 DEF ReaderStates
  <2>3. reader[r].version \in Versions /\ ProcessOf[r] \in Processes
      BY <1>k, <2>1, ProcessAssumption
  <2>4. reader[r].version \notin twice => rules = reader[r].sha
    <3>1. reader[r].version \notin twice => rules = meta[reader[r].version]
        BY <2>1, <2>3 DEF Cached, ReaderInv, CachesSee
    <3>. QED BY <1>s, <2>1, <3>1
  <2>. HIDE DEF state, rules
  <2>. QED BY <1>s, <2>1, <2>2, <2>3, <2>4, OneReaderMoves
<1>5. CASE Extract(r)
  <2>. DEFINE found == file[reader[r].version]
              state == IF found \in Archives
                       THEN [reader[r] EXCEPT !.at = "caching", !.got = found]
                       ELSE [reader[r] EXCEPT !.at = "failed"]
  <2>1. Becomes(r, state) /\ cache' = cache /\ reader[r].at = "resolved" /\ r \in Runs
      BY <1>5 DEF Extract
  <2>2. /\ state.at \in {"caching", "failed"} /\ state.version = reader[r].version
        /\ state.sha = reader[r].sha
        /\ state.at = "caching" => state.got = found /\ found \in Archives
      BY <1>0 DEF ReaderStates
  <2>3. reader[r].version \in Versions
      BY <1>k, <2>1
  <2>4. reader[r].version \notin twice => found = reader[r].sha
      BY <1>s, <2>1, <2>3, MarkersAreApart DEF DescribedIsWhole
  <2>. HIDE DEF state, found
  <2>. QED BY <1>s, <2>1, <2>2, <2>3, <2>4, OneReaderMoves
<1>6. CASE StoreRules(r)
  <2>. DEFINE state == [reader[r] EXCEPT !.at = "got"]
              v == reader[r].version
  <2>1. /\ reader[r].at = "caching" /\ reader' = [reader EXCEPT ![r] = state]
        /\ cache' = [cache EXCEPT ![ProcessOf[r]][v] = reader[r].got]
        /\ meta' = meta /\ twice' = twice
      BY <1>6 DEF StoreRules, Becomes, registry
  <2>2. /\ state.at = "got" /\ state.version = v /\ state.sha = reader[r].sha
        /\ state.got = reader[r].got
      BY <1>0 DEF ReaderStates
  <2>3. reader'[r] = state /\ \A q \in Readers : q # r => reader'[q] = reader[q]
      BY <1>0, <2>1
  <2>. HIDE DEF state
  <2>4. v \in Versions /\ ProcessOf[r] \in Processes
      BY <1>k, <2>1, ProcessAssumption
  <2>5. ReadersKnow'
      BY <2>1, <2>2, <2>3, <2>4 DEF ReaderInv, ReadersKnow
  <2>6. ReadersSee'
      BY <1>s, <2>1, <2>2, <2>3 DEF ReaderInv, ReadersSee
  <2>7. ReadersGet'
      BY <1>g, <2>1, <2>2, <2>3 DEF ReaderInv, ReadersGet
  <2>8. CachesSee'
    <3>. SUFFICES ASSUME NEW q \in Processes, NEW w \in Versions,
                         cache'[q][w] # None, w \notin twice
                  PROVE  cache'[q][w] = meta[w]
        BY <2>1 DEF CachesSee
    <3>1. CASE q = ProcessOf[r] /\ w = v
      <4>1. cache'[q][w] = reader[r].got
          BY <1>0, <2>1, <2>4, <3>1
      <4>. QED BY <1>s, <1>g, <2>1, <3>1, <4>1
    <3>2. CASE ~(q = ProcessOf[r] /\ w = v)
      <4>1. cache'[q][w] = cache[q][w]
          BY <1>0, <2>1, <2>4, <3>2
      <4>. QED BY <4>1 DEF ReaderInv, CachesSee
    <3>. QED BY <3>1, <3>2
  <2>. QED BY <2>5, <2>6, <2>7, <2>8 DEF ReaderInv
<1>. QED BY <1>1, <1>2, <1>3, <1>4, <1>5, <1>6 DEF ReadStep

\* A reader is told only of a version that has metadata.
LEMMA ReadKeepsCurrent ==
    ASSUME TypeOK, CurrentInv, NEW r \in Readers, ReadStep(r)
    PROVE  CurrentInv'
<1>1. UNCHANGED <<current, meta, rollback>>
    BY DEF ReadStep, ReadCurrent, ReadMeta, Download, LoadCached, Extract, StoreRules, Becomes, registry
<1>2. ASSUME NEW q \in Readers, reader'[q].at = "describing"
      PROVE  meta[reader'[q].version] # None
  <2>0. reader \in [Readers -> ReaderStates] /\ reader[r] \in ReaderStates
      BY DEF TypeOK
  <2>1. CASE q # r
    <3>1. reader'[q] = reader[q]
        BY <2>0, <2>1 DEF ReadStep, ReadCurrent, ReadMeta, Download, LoadCached, Extract,
                          StoreRules, Becomes
    <3>. QED BY <1>2, <3>1 DEF CurrentInv, ResolveHolds
  <2>2. CASE q = r /\ ReadCurrent(r)
    <3>1. reader'[r] = [NoReader EXCEPT !.at = IF current = None THEN "failed" ELSE "describing",
                                        !.version = current]
        BY <2>0, <2>2 DEF ReadCurrent, Becomes
    <3>2. current # None /\ reader'[r].version = current
        BY <1>2, <2>2, <3>1 DEF NoReader
    <3>. QED BY <2>2, <3>2 DEF CurrentInv, ResolveHolds
  <2>3. CASE q = r /\ ~ReadCurrent(r)
    <3>1. reader'[r].at # "describing"
      <4>1. CASE ReadMeta(r)
          BY <2>0, <4>1 DEF ReadMeta, Becomes, ReaderStates
      <4>2. CASE Download(r)
          BY <2>0, <4>2 DEF Download, Becomes, ReaderStates
      <4>3. CASE LoadCached(r)
          BY <2>0, <4>3 DEF LoadCached, Becomes, ReaderStates
      <4>4. CASE Extract(r)
          BY <2>0, <4>4 DEF Extract, Becomes, ReaderStates
      <4>5. CASE StoreRules(r)
          BY <2>0, <4>5 DEF StoreRules, Becomes, ReaderStates
      <4>. QED BY <2>3, <4>1, <4>2, <4>3, <4>4, <4>5 DEF ReadStep
    <3>. QED BY <1>2, <2>3, <3>1
  <2>. QED BY <2>1, <2>2, <2>3
<1>. QED BY <1>1, <1>2 DEF CurrentInv, RollbackIsChecked, ResolveHolds

\* Rollbacks touch nothing of what readers have seen.
LEMMA RollbackKeepsReaders ==
    ASSUME ReaderInv, UNCHANGED <<meta, reader, cache, twice>>
    PROVE  ReaderInv'
BY DEF ReaderInv, ReadersKnow, ReadersSee, ReadersGet, CachesSee

-----------------------------------------------------------------------------
(* The invariant.                                                          *)

LEMMA InvInit == Init => RulesInv
<1>. SUFFICES ASSUME Init
              PROVE  RulesInv
    OBVIOUS
<1>1. /\ \A p \in Publishes : publish[p].at = "idle" /\ publish[p].mixed = FALSE
      /\ \A b \in Rollbacks : rollback[b].at = "idle"
      /\ \A r \in Readers : reader[r].at = "idle"
      /\ \A v \in Versions : meta[v] = None /\ file[v] = None
      /\ \A q \in Processes, v \in Versions : cache[q][v] = None
      /\ current = None
    BY DEF Init, NoReader
<1>2. RegistryInv
    BY <1>1 DEF RegistryInv, CountedTogether, MixedTogether, UntouchedIsBlank, BlankBefore,
                WholeAfterwards, DescribedAfterwards, DescribedIsWhole, QuietVersionAgrees, Busy
<1>3. CurrentInv
    BY <1>1 DEF CurrentInv, RollbackIsChecked, ResolveHolds
<1>4. ReaderInv
    BY <1>1 DEF ReaderInv, ReadersKnow, ReadersSee, ReadersGet, CachesSee
<1>. QED BY <1>2, <1>3, <1>4, TypeInit DEF RulesInv

LEMMA InvStep == RulesInv /\ [Next]_vars => RulesInv'
<1>. SUFFICES ASSUME RulesInv, [Next]_vars
              PROVE  RulesInv'
    OBVIOUS
<1>0. /\ TypeOK /\ RegistryInv /\ CurrentInv /\ ReaderInv
      /\ ReadersKnow /\ DescribedIsWhole /\ ResolveHolds
    BY DEF RulesInv, ReaderInv, RegistryInv, CurrentInv
<1>1. ASSUME NEW p \in Publishes, PublishStep(p)
      PROVE  RulesInv'
    BY <1>0, <1>1, TypePublishStep, PublishKeepsRegistry, PublishKeepsCurrent, PublishKeepsReaders
       DEF RulesInv
<1>2. ASSUME NEW b \in Rollbacks, CheckRollback(b) \/ ActivateRollback(b)
      PROVE  RulesInv'
  <2>1. UNCHANGED <<meta, file, publish, twice, clashed, reader, cache>>
      BY <1>2 DEF CheckRollback, ActivateRollback, registry
  <2>2. RegistryInv'
      BY <1>0, <2>1, OthersKeepRegistry
  <2>3. ReaderInv'
      BY <1>0, <2>1, RollbackKeepsReaders
  <2>. QED BY <1>0, <1>2, <2>2, <2>3, TypeRollbackStep, RollbackKeepsCurrent DEF RulesInv
<1>3. ASSUME NEW r \in Readers, ReadStep(r)
      PROVE  RulesInv'
  <2>1. UNCHANGED <<meta, file, publish, twice, clashed>>
      BY <1>3 DEF ReadStep, ReadCurrent, ReadMeta, Download, LoadCached, Extract, StoreRules,
                  Becomes, registry
  <2>2. RegistryInv'
      BY <1>0, <2>1, OthersKeepRegistry
  <2>. QED BY <1>0, <1>3, <2>2, TypeReadStep, ReadKeepsCurrent, ReadKeepsReaders DEF RulesInv
<1>4. CASE UNCHANGED vars
  <2>1. TypeOK'
      BY <1>0, <1>4, TypeStutters
  <2>2. RegistryInv'
      BY <1>0, <1>4, OthersKeepRegistry DEF vars, registry
  <2>3. ReaderInv'
      BY <1>0, <1>4, RollbackKeepsReaders DEF vars, registry
  <2>4. CurrentInv'
      BY <1>0, <1>4 DEF vars, registry, CurrentInv, RollbackIsChecked, ResolveHolds
  <2>. QED BY <2>1, <2>2, <2>3, <2>4 DEF RulesInv
<1>. QED BY <1>1, <1>2, <1>3, <1>4 DEF Next

LEMMA SpecKeepsInv == Spec => []RulesInv
BY InvInit, InvStep, PTL DEF Spec

\* Every reachable state of the registry, its requests and the caches is well typed;
\* in particular a run keeps only whole archives, under a version it resolved.
THEOREM RulesTypesCorrect == Spec => []TypeOK
<1>1. RulesInv => TypeOK
    BY DEF RulesInv
<1>. QED BY <1>1, SpecKeepsInv, PTL

\* resolve never finds the version in force without metadata, whatever publishes and
\* rollbacks interleave with it or die: metadata are written before the current key,
\* read before a rollback, and never removed.
THEOREM ResolveAlwaysHolds == Spec => []ResolveHolds
<1>1. RulesInv => ResolveHolds
    BY DEF RulesInv, CurrentInv
<1>. QED BY <1>1, SpecKeepsInv, PTL

\* A version published once has its whole archive as soon as it has metadata.
THEOREM DescribedVersionsAreWhole == Spec => []DescribedIsWhole
<1>1. RulesInv => DescribedIsWhole
    BY DEF RulesInv, RegistryInv
<1>. QED BY <1>1, SpecKeepsInv, PTL

\* A client downloads the archive that was described to it.
THEOREM DownloadsMatch == Spec => []DownloadMatches
<1>1. RulesInv => DownloadMatches
    BY DEF RulesInv, ReaderInv, ReadersGet, DownloadMatches, Readers
<1>. QED BY <1>1, SpecKeepsInv, PTL

\* A run works with the rules of the version it resolved, whether another run of its
\* process has cached them or not.
THEOREM RunsUseResolvedRules == Spec => []RunsUseTheirVersion
<1>1. RulesInv => RunsUseTheirVersion
    BY DEF RulesInv, ReaderInv, ReadersGet, RunsUseTheirVersion, Readers
<1>. QED BY <1>1, SpecKeepsInv, PTL

\* Archive and metadata of a version agree again when nobody is publishing it, unless
\* two did at once or one died.
THEOREM QuietVersionsAgree == Spec => []QuietVersionAgrees
<1>1. RulesInv => QuietVersionAgrees
    BY DEF RulesInv, RegistryInv
<1>. QED BY <1>1, SpecKeepsInv, PTL
=============================================================================
