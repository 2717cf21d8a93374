-------------------------- MODULE GenerationProofs --------------------------
(* Proofs about two components of a generation: the compiler of the plans   *)
(* it goes by (Compiler), for any rules, registry and parts, and the repair *)
(* of its bullets (BulletRepair), for any bullets, answers, lines, keywords *)
(* and rounds.                                                              *)
EXTENDS Compiler, BulletRepair, SequenceTheorems, WellFoundedInduction, TLAPS

-----------------------------------------------------------------------------
(* FlattenSeq, which adds sequences up from the first to the last.  The     *)
(* groups are compared as it flattens them, so it has to be known what one  *)
(* group more comes to.                                                     *)

\* Induction over the numbers, for sets: a number that is missing would be the least.
LEMMA Induction ==
    ASSUME NEW A, 0 \in A, \A n \in A \cap Nat : n + 1 \in A
    PROVE  Nat \subseteq A
<1> SUFFICES ASSUME Nat \ A # {} PROVE FALSE
  OBVIOUS
<1>1. \E x \in Nat \ A : \A y \in Nat \ A : ~ (<<y, x>> \in OpToRel(<, Nat))
  BY NatLessThanWellFounded, WFMin
<1>2. PICK x \in Nat \ A : \A y \in Nat \ A : ~ (y < x)
  BY <1>1 DEF OpToRel
<1>3. x - 1 \in A \cap Nat
  BY <1>2
<1> QED
  BY <1>2, <1>3

\* The partial sums of FlattenSeq, up to the n-th.
AddsUp(f, gs, n) == f = [i \in 1..n |-> IF i = 1 THEN gs[i] ELSE f[i - 1] \o gs[i]]

LEMMA SumsExist ==
    ASSUME NEW gs, NEW n \in Nat
    PROVE  \E f : AddsUp(f, gs, n)
<1> DEFINE A == {k \in Nat : \E f : AddsUp(f, gs, k)}
<1>1. 0 \in A
  <2>1. AddsUp([i \in 1..0 |-> gs[i]], gs, 0)
    BY DEF AddsUp
  <2> QED
    BY <2>1
<1>2. ASSUME NEW k \in A \cap Nat PROVE k + 1 \in A
  <2>1. PICK f : AddsUp(f, gs, k)
    OBVIOUS
  <2> DEFINE h == [i \in 1..(k + 1) |->
                      IF i = k + 1 THEN (IF k = 0 THEN gs[1] ELSE f[k] \o gs[k + 1]) ELSE f[i]]
  <2>2. h = [i \in 1..(k + 1) |-> IF i = 1 THEN gs[i] ELSE h[i - 1] \o gs[i]]
    <3>1. ASSUME NEW i \in 1..(k + 1)
          PROVE  h[i] = IF i = 1 THEN gs[i] ELSE h[i - 1] \o gs[i]
      <4>1. CASE i = k + 1
        BY <4>1
      <4>2. CASE i # k + 1
        <5>1. i \in 1..k /\ h[i] = f[i] /\ (i # 1 => h[i - 1] = f[i - 1])
          BY <4>2
        <5>2. f[i] = IF i = 1 THEN gs[i] ELSE f[i - 1] \o gs[i]
          <6> HIDE DEF h
          <6> QED
            BY <2>1, <5>1 DEF AddsUp
        <5> QED
          BY <5>1, <5>2
      <4> QED
        BY <4>1, <4>2
    <3> QED
      BY <3>1
  <2>3. AddsUp(h, gs, k + 1)
    BY <2>2 DEF AddsUp
  <2> QED
    BY <2>3
<1> HIDE DEF A
<1>3. Nat \subseteq A
  BY <1>1, <1>2, Induction
<1> QED
  BY <1>3 DEF A

\* Sums of sequences that begin alike begin alike.
LEMMA SumsAgree ==
    ASSUME NEW f, NEW h, NEW gs, NEW hs, NEW m \in Nat, NEW n \in Nat, m <= n,
           AddsUp(f, gs, m), AddsUp(h, hs, n), \A i \in 1..m : gs[i] = hs[i]
    PROVE  \A i \in 1..m : f[i] = h[i]
<1> DEFINE A == {k \in Nat : k \in 1..m => f[k] = h[k]}
<1>1. 0 \in A
  OBVIOUS
<1>2. ASSUME NEW k \in A \cap Nat PROVE k + 1 \in A
  <2> SUFFICES ASSUME k + 1 \in 1..m PROVE f[k + 1] = h[k + 1]
    OBVIOUS
  <2>1. \A i \in 1..m : f[i] = IF i = 1 THEN gs[i] ELSE f[i - 1] \o gs[i]
    BY DEF AddsUp
  <2>2. \A i \in 1..n : h[i] = IF i = 1 THEN hs[i] ELSE h[i - 1] \o hs[i]
    BY DEF AddsUp
  <2>3. k + 1 \in 1..n /\ (k + 1) - 1 = k
    OBVIOUS
  <2>4. k # 0 => f[k] = h[k]
    OBVIOUS
  <2>5. f[k + 1] = IF k = 0 THEN gs[k + 1] ELSE f[k] \o gs[k + 1]
    BY <2>1, <2>3
  <2>6. h[k + 1] = IF k = 0 THEN hs[k + 1] ELSE h[k] \o hs[k + 1]
    BY <2>2, <2>3
  <2> QED
    BY <2>4, <2>5, <2>6
<1> HIDE DEF A
<1>3. Nat \subseteq A
  BY <1>1, <1>2, Induction
<1> QED
  BY <1>3 DEF A

\* What FlattenSeq chooses is the last of the partial sums.
LEMMA FlattenIsSum ==
    ASSUME NEW S, NEW gs \in Seq(Seq(S)), gs # <<>>
    PROVE  \E f : AddsUp(f, gs, Len(gs)) /\ FlattenSeq(gs) = f[Len(gs)]
<1>1. Len(gs) \in Nat /\ Len(gs) # 0
  OBVIOUS
<1> DEFINE F == CHOOSE f : f = [i \in 1..Len(gs) |-> IF i = 1 THEN gs[i] ELSE f[i - 1] \o gs[i]]
<1>2. FlattenSeq(gs) = F[Len(gs)]
  BY <1>1 DEF FlattenSeq
<1>3. AddsUp(F, gs, Len(gs))
  BY <1>1, SumsExist DEF AddsUp
<1> QED
  BY <1>2, <1>3

\* Flattening nothing, and one sequence more.
LEMMA FlattenEmpty == FlattenSeq(<<>>) = <<>>
  BY DEF FlattenSeq

LEMMA FlattenSingle ==
    ASSUME NEW S, NEW g \in Seq(S)
    PROVE  FlattenSeq(<<g>>) = g
<1>1. <<g>> \in Seq(Seq(S)) /\ <<g>> # <<>> /\ Len(<<g>>) = 1
  OBVIOUS
<1>2. PICK f : AddsUp(f, <<g>>, 1) /\ FlattenSeq(<<g>>) = f[1]
  BY <1>1, FlattenIsSum
<1> QED
  BY <1>2 DEF AddsUp

LEMMA FlattenAppend ==
    ASSUME NEW S, NEW gs \in Seq(Seq(S)), NEW g \in Seq(S), gs # <<>>
    PROVE  FlattenSeq(Append(gs, g)) = FlattenSeq(gs) \o g
<1> DEFINE n == Len(gs)
           hs == Append(gs, g)
<1>1. /\ n \in Nat /\ n # 0 /\ hs \in Seq(Seq(S)) /\ hs # <<>> /\ Len(hs) = n + 1
      /\ hs[n + 1] = g /\ \A i \in 1..n : gs[i] = hs[i]
  OBVIOUS
<1>2. PICK f : AddsUp(f, gs, n) /\ FlattenSeq(gs) = f[n]
  BY FlattenIsSum
<1>3. PICK h : AddsUp(h, hs, n + 1) /\ FlattenSeq(hs) = h[n + 1]
  BY <1>1, FlattenIsSum
<1>4. f[n] = h[n]
  <2> HIDE DEF n, hs
  <2>1. n \in Nat /\ n + 1 \in Nat /\ n <= n + 1 /\ n \in 1..n
    BY <1>1
  <2>2. AddsUp(f, gs, n) /\ AddsUp(h, hs, n + 1) /\ \A i \in 1..n : gs[i] = hs[i]
    BY <1>1, <1>2, <1>3
  <2>3. \A i \in 1..n : f[i] = h[i]
    BY <2>1, <2>2, SumsAgree
  <2> QED
    BY <2>1, <2>3
<1>5. h[n + 1] = h[n] \o hs[n + 1]
  <2> HIDE DEF n, hs
  <2>1. \A i \in 1..(n + 1) : h[i] = IF i = 1 THEN hs[i] ELSE h[i - 1] \o hs[i]
    BY <1>3 DEF AddsUp
  <2>2. n + 1 \in 1..(n + 1) /\ n + 1 # 1 /\ (n + 1) - 1 = n
    BY <1>1
  <2> QED
    BY <2>1, <2>2
<1> QED
  BY <1>1, <1>2, <1>3, <1>4, <1>5

LEMMA FlattenGrows ==
    ASSUME NEW S, NEW gs \in Seq(Seq(S)), NEW g \in Seq(S), FlattenSeq(gs) \in Seq(S)
    PROVE  FlattenSeq(Append(gs, g)) = FlattenSeq(gs) \o g
<1>1. CASE gs = <<>>
  <2>1. Append(gs, g) = <<g>>
    BY <1>1
  <2>2. <<>> \o g = g
    OBVIOUS
  <2> QED
    BY <1>1, <2>1, <2>2, FlattenEmpty, FlattenSingle
<1>2. CASE gs # <<>>
  BY <1>2, FlattenAppend
<1> QED
  BY <1>1, <1>2

-----------------------------------------------------------------------------
(* The loop over the required sections.                                     *)

\* How many of the required sections are done.
Done == Len(rules.required) - Len(left)

\* The sections planned so far are those of the part of the rules that is done.
LoopInOrder ==
    /\ Done \in 0..Len(rules.required)
    /\ left = SubSeq(rules.required, Done + 1, Len(rules.required))
    /\ executable = Planable(SubSeq(rules.required, 1, Done))
    /\ phase \in {"chunking", "compiled"} => left = <<>>

\* A plan is what the rules, the templates and the registry say of its section.
PlansAreOurs ==
    /\ \A s \in Sections : plans[s] # None =>
           /\ TemplateKnown(s)
           /\ plans[s] = DerivedPlan(s) \/ (plans[s] = WrittenPlan(s) /\ Writable(s))
    /\ \A i \in 1..Len(executable) : plans[executable[i]] # None

\* Where slice ends when it is given a bound in parts.
Cut(n) == IF n \div Parts < Len(executable) THEN n \div Parts ELSE Len(executable)

\* The groups are the executable sections up to the index.
ChunksInOrder ==
    /\ phase \notin {"chunking", "compiled"} => groups = <<>> /\ index = 0
    /\ phase = "compiled" => index >= Parts * Len(executable)
    /\ FlattenSeq(groups) = SubSeq(executable, 1, Cut(index))
    /\ \A j \in 1..Len(groups) :
           /\ Len(groups[j]) >= 1 /\ Parts * Len(groups[j]) < ChunkSize + Parts
           /\ \A i \in 1..Len(groups[j]) :
                  \E k \in 1..Len(executable) : groups[j][i] = executable[k]

CompilerInv == CompilerTypeOK /\ LoopInOrder /\ PlansAreOurs /\ ChunksInOrder

-----------------------------------------------------------------------------
(* What the layers of defaults come to.                                     *)

\* The layers keep what a number and a condition may be.
LEMMA SettingsAreSettings ==
    ASSUME rules \in Rules, NEW s \in Sections, TemplateKnown(s)
    PROVE  /\ Settings(s).candidate_count \in Int \cup {None}
           /\ Settings(s).reviewer_required \in BOOLEAN \cup {None}
<1>1. IsSettings(rules.override[s]) /\ IsSettings(DefaultOverride[s])
  BY RulesAssumption, RegistryAssumption
<1>2. IsSettings(Override(s))
  BY <1>1 DEF Override, Merged, Or, IsSettings, Fields
<1>3. IsSettings(Template(s))
  <2>1. CASE Override(s).team_template = None
    BY <2>1 DEF Template, Blank, Fields, IsSettings
  <2>2. CASE Override(s).team_template # None
    <3> DEFINE name == Override(s).team_template
    <3>1. name \in TemplateNames /\ Named(name) # None /\ Template(s) = Named(name)
      BY <1>2, <2>2 DEF IsSettings, TemplateKnown, Template
    <3>2. rules.templates[name] # None => IsSettings(rules.templates[name])
      BY <3>1, RulesAssumption
    <3>3. DefaultTemplate[name] # None => IsSettings(DefaultTemplate[name])
      BY <3>1, RegistryAssumption
    <3> QED
      BY <3>1, <3>2, <3>3 DEF Named, Or
  <2> QED
    BY <2>1, <2>2
<1> QED
  BY <1>2, <1>3 DEF Settings, Merged, Or, IsSettings, Fields

LEMMA CandidatesAreParts ==
    ASSUME rules \in Rules, NEW s \in Sections, TemplateKnown(s)
    PROVE  Candidates(s) \in Nat /\ Candidates(s) >= Parts
  BY SettingsAreSettings, PartsAssumption DEF Candidates, AtLeast, Or

LEMMA ChunkSizeIsParts ==
    ASSUME rules \in Rules
    PROVE  ChunkSize \in Nat /\ ChunkSize >= Parts
<1>1. rules.concurrency \in Int \cup {None}
  BY RulesAssumption
<1>2. Parts * DefaultConcurrency \in Int
  BY PartsAssumption, RegistryAssumption
<1> QED
  BY <1>1, <1>2, PartsAssumption DEF ChunkSize, AtLeast, Or

LEMMA PlansAreTyped ==
    ASSUME rules \in Rules, NEW s \in Sections, TemplateKnown(s)
    PROVE  /\ DerivedPlan(s) \in Plan
           /\ Writable(s) => WrittenPlan(s) \in Plan
           /\ None \notin Plan
<1>1. Candidates(s) \in Nat \ {0}
  BY CandidatesAreParts, PartsAssumption
<1>2. [r \in Roles |-> None] \in [Roles -> Profiles \cup {None}]
  OBVIOUS
<1>3. Writable(s) =>
          [r \in Roles |-> IF r \in RolesOf(s) THEN Profile(s, r) ELSE None]
              \in [Roles -> Profiles \cup {None}]
  BY RegistryAssumption DEF Writable
<1>4. DerivedPlan(s) \in Plan
  BY <1>1, <1>2 DEF DerivedPlan, Plan
<1>5. Writable(s) => WrittenPlan(s) \in Plan
  <2> DEFINE f == [r \in Roles |-> IF r \in RolesOf(s) THEN Profile(s, r) ELSE None]
  <2>1. Writable(s) => f \in [Roles -> Profiles \cup {None}]
    BY <1>3
  <2>2. WrittenPlan(s) = [mode |-> "generate", count |-> Candidates(s), profile |-> f]
    BY DEF WrittenPlan
  <2> HIDE DEF f
  <2> QED
    BY <1>1, <2>1, <2>2 DEF Plan
<1> QED
  BY <1>4, <1>5, RegistryAssumption

\* Nothing changes the rules, and so nothing changes what they come to.
LEMMA RulesStay ==
    ASSUME rules' = rules
    PROVE  /\ ChunkSize' = ChunkSize
           /\ \A s \in Sections :
                  /\ TemplateKnown(s)' = TemplateKnown(s)
                  /\ DerivedPlan(s)' = DerivedPlan(s)
                  /\ WrittenPlan(s)' = WrittenPlan(s)
                  /\ Writable(s)' = Writable(s)
<1>1. ChunkSize' = ChunkSize
  BY DEF ChunkSize
<1> SUFFICES ASSUME NEW s \in Sections
             PROVE  /\ TemplateKnown(s)' = TemplateKnown(s)
                    /\ DerivedPlan(s)' = DerivedPlan(s)
                    /\ WrittenPlan(s)' = WrittenPlan(s)
                    /\ Writable(s)' = Writable(s)
  BY <1>1
<1>2. Override(s)' = Override(s)
  BY DEF Override
<1>3. \A n : Named(n)' = Named(n)
  BY DEF Named
<1>4. Template(s)' = Template(s)
  BY <1>2, <1>3 DEF Template
<1>5. Settings(s)' = Settings(s)
  BY <1>2, <1>4 DEF Settings
<1>6. Candidates(s)' = Candidates(s)
  BY <1>5 DEF Candidates
<1>7. Reviewed(s)' = Reviewed(s) /\ RolesOf(s)' = RolesOf(s)
  BY <1>5 DEF Reviewed, RolesOf, Quality
<1>8. \A r \in Roles : Profile(s, r)' = Profile(s, r)
  BY <1>5 DEF Profile
<1>9. TemplateKnown(s)' = TemplateKnown(s)
  BY <1>2, <1>3 DEF TemplateKnown
<1>10. DerivedPlan(s)' = DerivedPlan(s)
  BY <1>6 DEF DerivedPlan
<1>11. WrittenPlan(s)' = WrittenPlan(s)
  BY <1>6, <1>7, <1>8 DEF WrittenPlan
<1>12. Writable(s)' = Writable(s)
  BY <1>6, <1>7, <1>8 DEF Writable, RolesOf
<1> QED
  BY <1>9, <1>10, <1>11, <1>12

-----------------------------------------------------------------------------
(* A step of the loop, and a step of chunkSections.                         *)

\* What is left of a sequence after its first k elements, and one more element.
LEMMA OneMore ==
    ASSUME NEW S, NEW r \in Seq(S), NEW k \in Nat, k < Len(r)
    PROVE  /\ Head(SubSeq(r, k + 1, Len(r))) = r[k + 1]
           /\ Tail(SubSeq(r, k + 1, Len(r))) = SubSeq(r, (k + 1) + 1, Len(r))
           /\ SubSeq(r, 1, k + 1) = Append(SubSeq(r, 1, k), r[k + 1])
           /\ SubSeq(r, 1, k) \in Seq(S) /\ r[k + 1] \in S
<1>1. k + 1 \in 1..Len(r) /\ Len(r) \in (k + 1)..Len(r) /\ 1 \in 1..Len(r) /\ k + 1 \in 1..(k + 1)
  OBVIOUS
<1>2. SubSeq(r, 1, k + 1) = SubSeq(r, 1, (k + 1) - 1) \o <<r[k + 1]>>
  BY <1>1, SubSeqRecursiveSecond
<1>3. (k + 1) - 1 = k
  OBVIOUS
<1>4. SubSeq(r, 1, k) \in Seq(S) /\ r[k + 1] \in S
  <2>1. \A i \in 1..k : r[i] \in S
    BY <1>1
  <2> QED
    BY <1>1, <2>1, SubSeqProperties
<1>5. SubSeq(r, 1, k) \o <<r[k + 1]>> = Append(SubSeq(r, 1, k), r[k + 1])
  BY <1>4
<1> QED
  BY <1>1, <1>2, <1>3, <1>4, <1>5, HeadTailOfSubSeq

LEMMA PlanableGrows ==
    ASSUME NEW r \in Seq(Sections \cup {Translation}), NEW x \in Sections \cup {Translation},
           Planable(r) \in Seq(Sections)
    PROVE  Planable(Append(r, x)) = IF x = Translation THEN Planable(r) ELSE Append(Planable(r), x)
<1> DEFINE Single(y) == IF y = Translation THEN <<>> ELSE <<y>>
           gs == [i \in DOMAIN r |-> Single(r[i])]
<1>1. gs \in Seq(Seq(Sections))
  <2>1. \A i \in DOMAIN r : Single(r[i]) \in Seq(Sections)
    OBVIOUS
  <2>2. DOMAIN r = 1..Len(r) /\ Len(r) \in Nat
    OBVIOUS
  <2> HIDE DEF Single
  <2> QED
    BY <2>1, <2>2
<1>2. Single(x) \in Seq(Sections)
  OBVIOUS
<1>3. [i \in DOMAIN Append(r, x) |-> Single(Append(r, x)[i])] = Append(gs, Single(x))
  <2>1. Append(gs, Single(x)) \in Seq(Seq(Sections))
    BY <1>1, <1>2
  <2>2. DOMAIN Append(r, x) = 1..(Len(r) + 1) /\ Len(gs) = Len(r)
    BY <1>1
  <2>3. \A i \in 1..(Len(r) + 1) : Append(gs, Single(x))[i] = Single(Append(r, x)[i])
    <3> SUFFICES ASSUME NEW i \in 1..(Len(r) + 1)
                 PROVE  Append(gs, Single(x))[i] = Single(Append(r, x)[i])
      OBVIOUS
    <3>1. CASE i = Len(r) + 1
      <4> HIDE DEF Single
      <4> QED
        BY <3>1, <1>1, <2>2
    <3>2. CASE i \in 1..Len(r)
      <4> HIDE DEF Single
      <4> QED
        BY <3>2, <1>1, <2>2
    <3> QED
      BY <3>1, <3>2
  <2>4. Append(gs, Single(x)) = [i \in 1..(Len(r) + 1) |-> Append(gs, Single(x))[i]]
    <3> HIDE DEF Single
    <3> QED
      BY <1>1, <1>2, <2>2
  <2> HIDE DEF Single, gs
  <2> QED
    BY <2>2, <2>3, <2>4
<1>4. Planable(r) = FlattenSeq(gs) /\ Planable(Append(r, x)) = FlattenSeq(Append(gs, Single(x)))
  BY <1>3 DEF Planable
<1>5. FlattenSeq(Append(gs, Single(x))) = FlattenSeq(gs) \o Single(x)
  <2> HIDE DEF gs, Single
  <2> QED
    BY <1>1, <1>2, <1>4, FlattenGrows
<1>6. Planable(r) \o Single(x) = IF x = Translation THEN Planable(r) ELSE Append(Planable(r), x)
  OBVIOUS
<1> QED
  BY <1>4, <1>5, <1>6

LEMMA LoopStep ==
    ASSUME CompilerTypeOK, LoopInOrder, left # <<>>
    PROVE  /\ Done + 1 \in 0..Len(rules.required)
           /\ Tail(left) = SubSeq(rules.required, (Done + 1) + 1, Len(rules.required))
           /\ Len(rules.required) - Len(Tail(left)) = Done + 1
           /\ Planable(SubSeq(rules.required, 1, Done + 1)) =
                  IF Head(left) = Translation THEN executable ELSE Append(executable, Head(left))
           /\ Head(left) \in Sections \cup {Translation}
           /\ Tail(left) \in Seq(Sections \cup {Translation})
<1> DEFINE S == Sections \cup {Translation}
           r == rules.required
           d == Done
<1>1. r \in Seq(S) /\ left \in Seq(S) /\ executable \in Seq(Sections)
  BY RulesAssumption DEF CompilerTypeOK
<1>2. d \in Nat /\ d < Len(r) /\ Len(left) = Len(r) - d
  BY <1>1 DEF LoopInOrder, Done
<1>3. left = SubSeq(r, d + 1, Len(r)) /\ executable = Planable(SubSeq(r, 1, d))
  BY DEF LoopInOrder
<1> HIDE DEF S, r, d
<1>4. /\ Head(left) = r[d + 1]
      /\ Tail(left) = SubSeq(r, (d + 1) + 1, Len(r))
      /\ SubSeq(r, 1, d + 1) = Append(SubSeq(r, 1, d), r[d + 1])
      /\ SubSeq(r, 1, d) \in Seq(S) /\ r[d + 1] \in S
  BY <1>1, <1>2, <1>3, OneMore
<1>5. Planable(Append(SubSeq(r, 1, d), r[d + 1])) =
          IF Head(left) = Translation THEN executable ELSE Append(executable, Head(left))
  BY <1>1, <1>3, <1>4, PlanableGrows DEF S
<1>6. Tail(left) \in Seq(S) /\ Len(r) - Len(Tail(left)) = d + 1 /\ d + 1 \in 0..Len(r)
  BY <1>1, <1>2
<1> QED
  BY <1>4, <1>5, <1>6 DEF S, r, d

\* A number of parts, and the whole numbers below it.
LEMMA Division ==
    ASSUME NEW a \in Nat
    PROVE  a \div Parts \in Nat /\ Parts * (a \div Parts) <= a /\ a < Parts * (a \div Parts) + Parts
  BY PartsAssumption

LEMMA DivisionGap ==
    ASSUME NEW a \in Nat, NEW c \in Nat, c >= Parts
    PROVE  /\ (a + c) \div Parts >= (a \div Parts) + 1
           /\ Parts * (((a + c) \div Parts) - (a \div Parts)) < c + Parts
<1> DEFINE p == a \div Parts
           q == (a + c) \div Parts
<1>1. p \in Nat /\ Parts * p <= a /\ a < Parts * p + Parts
  BY Division
<1>2. q \in Nat /\ Parts * q <= a + c /\ a + c < Parts * q + Parts
  <2>1. a + c \in Nat
    OBVIOUS
  <2> QED
    BY <2>1, Division
<1> HIDE DEF p, q
<1>3. Parts * (q + 1) > Parts * (p + 1)
  BY <1>1, <1>2, PartsAssumption
<1>4. q >= p + 1
  BY <1>1, <1>2, <1>3, PartsAssumption
<1>5. Parts * (q - p) < c + Parts
  BY <1>1, <1>2, PartsAssumption
<1> QED
  BY <1>4, <1>5 DEF p, q

LEMMA TimesParts ==
    ASSUME NEW a \in Int, NEW b \in Int, a <= b
    PROVE  Parts * a <= Parts * b
<1>1. b - a \in Nat /\ Parts * (b - a) >= 0
  BY PartsAssumption
<1>2. Parts * b = Parts * a + Parts * (b - a)
  BY PartsAssumption
<1>3. Parts * a \in Int /\ Parts * (b - a) \in Int
  BY PartsAssumption
<1> QED
  BY <1>1, <1>2, <1>3

LEMMA ChunkStep ==
    ASSUME CompilerTypeOK, ChunksInOrder, Chunk
    PROVE  LET g == Slice((index + ChunkSize) \div Parts) IN
           /\ g \in Seq(Sections)
           /\ Len(g) >= 1 /\ Parts * Len(g) < ChunkSize + Parts
           /\ \A i \in 1..Len(g) : \E k \in 1..Len(executable) : g[i] = executable[k]
           /\ FlattenSeq(Append(groups, g)) = SubSeq(executable, 1, Cut(index + ChunkSize))
<1> DEFINE n == Len(executable)
           p == index \div Parts
           c == ChunkSize
           q == Cut(index + ChunkSize)
           g == Slice((index + ChunkSize) \div Parts)
<1>1. executable \in Seq(Sections) /\ n \in Nat /\ index \in Nat /\ c \in Nat /\ c >= Parts
      /\ groups \in Seq(Seq(Sections))
  BY ChunkSizeIsParts DEF CompilerTypeOK
<1>2. p \in Nat /\ Parts * p <= index /\ index < Parts * n
  BY <1>1, Division DEF Chunk
<1>3. p < n
  <2> HIDE DEF p, n
  <2> QED
    BY <1>1, <1>2, PartsAssumption
<1> DEFINE m == (index + c) \div Parts
<1>4. m \in Nat /\ m >= p + 1 /\ Parts * (m - p) < c + Parts
  <2>1. index + c \in Nat
    BY <1>1
  <2>2. (index + c) \div Parts \in Nat
    BY <2>1, Division
  <2>3. /\ (index + c) \div Parts >= (index \div Parts) + 1
        /\ Parts * (((index + c) \div Parts) - (index \div Parts)) < c + Parts
    <3> HIDE DEF c
    <3> QED
      BY <1>1, DivisionGap
  <2> QED
    BY <2>2, <2>3
<1>5. q \in Nat /\ p + 1 <= q /\ q <= n /\ q <= m
  <2>1. q = IF m < n THEN m ELSE n
    BY DEF Cut
  <2> HIDE DEF p, q, m, n
  <2> QED
    BY <1>1, <1>2, <1>3, <1>4, <2>1
<1>6. Parts * (q - p) < c + Parts
  <2> HIDE DEF p, q, c, m
  <2>1. q - p \in Int /\ m - p \in Int /\ q - p <= m - p
    BY <1>2, <1>4, <1>5
  <2>2. Parts * (q - p) <= Parts * (m - p)
    BY <2>1, TimesParts
  <2>3. Parts * (q - p) \in Int /\ Parts * (m - p) \in Int /\ c + Parts \in Int
    BY <1>1, <2>1, PartsAssumption
  <2> QED
    BY <1>4, <2>2, <2>3
<1>7. g = SubSeq(executable, p + 1, q)
  BY DEF Slice, Cut
<1>8. Cut(index) = p
  BY <1>3 DEF Cut
<1> HIDE DEF n, p, c, q, g
<1>9. /\ g \in Seq(Sections) /\ Len(g) = q - p
      /\ \A i \in 1..(q - p) : g[i] = executable[p + i]
  <2>1. p + 1 \in Int /\ q \in Int /\ q - (p + 1) + 1 = q - p /\ p + 1 <= q
    BY <1>2, <1>5
  <2>2. \A i \in (p + 1)..q : executable[i] \in Sections
    BY <1>1, <1>2, <1>5 DEF n
  <2>3. /\ SubSeq(executable, p + 1, q) \in Seq(Sections)
        /\ Len(SubSeq(executable, p + 1, q)) = IF p + 1 <= q THEN q - (p + 1) + 1 ELSE 0
        /\ \A i \in 1..(q - (p + 1) + 1) : SubSeq(executable, p + 1, q)[i] = executable[(p + 1) + i - 1]
    BY <2>1, <2>2, SubSeqProperties
  <2>4. \A i \in 1..(q - p) : (p + 1) + i - 1 = p + i
    BY <1>2, <1>5
  <2> QED
    BY <1>7, <2>1, <2>3, <2>4
<1>10. Len(g) >= 1 /\ Parts * Len(g) < c + Parts
  BY <1>2, <1>5, <1>6, <1>9
<1>11. \A i \in 1..Len(g) : \E k \in 1..n : g[i] = executable[k]
  <2>1. \A i \in 1..(q - p) : p + i \in 1..n
    BY <1>1, <1>2, <1>5
  <2> QED
    BY <1>9, <2>1
<1>12. SubSeq(executable, 1, p) \o g = SubSeq(executable, 1, q)
  <2>1. 1 \in 1..(Len(executable) + 1) /\ p \in (1 - 1)..Len(executable) /\ q \in p..Len(executable)
    BY <1>1, <1>2, <1>3, <1>5 DEF n
  <2> QED
    BY <1>1, <1>7, <2>1, ConcatAdjacentSubSeq
<1>13. FlattenSeq(groups) = SubSeq(executable, 1, p) /\ SubSeq(executable, 1, p) \in Seq(Sections)
  <2>1. \A i \in 1..p : executable[i] \in Sections
    BY <1>1, <1>2, <1>3 DEF n
  <2> QED
    BY <1>2, <1>8, <2>1, SubSeqProperties DEF ChunksInOrder
<1>14. FlattenSeq(Append(groups, g)) = FlattenSeq(groups) \o g
  BY <1>1, <1>9, <1>13, FlattenGrows
<1> QED
  BY <1>9, <1>10, <1>11, <1>12, <1>13, <1>14 DEF n, c, q, g

-----------------------------------------------------------------------------
(* The invariant.                                                           *)

LEMMA CompilerInvInit == CompilerInit => CompilerInv
<1> SUFFICES ASSUME CompilerInit PROVE CompilerInv
  OBVIOUS
<1> USE DEF CompilerInit
<1>1. rules.required \in Seq(Sections \cup {Translation})
  BY RulesAssumption
<1>2. CompilerTypeOK
  BY <1>1 DEF CompilerTypeOK
<1>3. LoopInOrder
  <2>1. Done = 0 /\ Len(rules.required) \in Nat
    BY <1>1 DEF Done
  <2>2. left = SubSeq(rules.required, 0 + 1, Len(rules.required))
    BY <1>1, SubSeqFull
  <2>3. SubSeq(rules.required, 1, 0) = <<>>
    BY SubSeqEmpty
  <2>4. Planable(<<>>) = <<>>
    <3>1. [i \in DOMAIN <<>> |-> IF <<>>[i] = Translation THEN <<>> ELSE <<(<<>>[i])>>] = <<>>
      OBVIOUS
    <3> QED
      BY <3>1, FlattenEmpty DEF Planable
  <2>5. left = SubSeq(rules.required, Done + 1, Len(rules.required))
    BY <2>1, <2>2
  <2>6. executable = Planable(SubSeq(rules.required, 1, Done))
    BY <2>1, <2>3, <2>4
  <2>7. Done \in 0..Len(rules.required) /\ phase = "checking"
    BY <2>1
  <2> HIDE DEF CompilerInit
  <2> QED
    BY <2>5, <2>6, <2>7 DEF LoopInOrder
<1>4. PlansAreOurs
  BY DEF PlansAreOurs
<1>5. ChunksInOrder
  <2>1. 0 \div Parts = 0
    BY PartsAssumption
  <2>2. Cut(index) = 0
    BY <2>1 DEF Cut
  <2>3. SubSeq(executable, 1, 0) = <<>>
    BY SubSeqEmpty
  <2>4. FlattenSeq(groups) = SubSeq(executable, 1, Cut(index))
    BY <2>2, <2>3, FlattenEmpty
  <2>5. groups = <<>> /\ index = 0 /\ phase = "checking" /\ Len(groups) = 0
    OBVIOUS
  <2> HIDE DEF CompilerInit
  <2> QED
    BY <2>4, <2>5 DEF ChunksInOrder
<1> QED
  BY <1>2, <1>3, <1>4, <1>5 DEF CompilerInv

\* One more section planned, derived or written.
LEMMA AddStep ==
    ASSUME CompilerInv, NEW s \in Sections, NEW plan, AtSection(s), Add(s, plan), TemplateKnown(s),
           plan = DerivedPlan(s) \/ (plan = WrittenPlan(s) /\ Writable(s))
    PROVE  CompilerInv'
<1> USE DEF CompilerInv, AtSection, Add
<1>1. CompilerTypeOK /\ LoopInOrder /\ PlansAreOurs /\ ChunksInOrder /\ left # <<>> /\ rules \in Rules
  BY DEF CompilerTypeOK
<1>2. plan \in Plan /\ plan # None
  BY <1>1, PlansAreTyped
<1>3. executable \in Seq(Sections) /\ executable' = Append(executable, s) /\ Len(executable) \in Nat
  BY DEF CompilerTypeOK
<1>4. CompilerTypeOK'
  <2>1. left' \in Seq(Sections \cup {Translation})
    BY <1>1, LoopStep
  <2> QED
    BY <1>2, <1>3, <2>1 DEF CompilerTypeOK
<1>5. LoopInOrder'
  <2>1. Done' = Done + 1
    BY <1>1, LoopStep DEF Done
  <2>2. s # Translation
    BY RegistryAssumption
  <2>3. Planable(SubSeq(rules.required, 1, Done + 1)) = executable'
    BY <1>1, <2>2, LoopStep
  <2> QED
    BY <1>1, <2>1, <2>3, LoopStep DEF LoopInOrder
<1>6. PlansAreOurs'
  <2>1. \A t \in Sections :
            /\ TemplateKnown(t)' = TemplateKnown(t) /\ DerivedPlan(t)' = DerivedPlan(t)
            /\ WrittenPlan(t)' = WrittenPlan(t) /\ Writable(t)' = Writable(t)
    BY RulesStay
  <2>2. plans \in [Sections -> Plan \cup {None}]
    BY DEF CompilerTypeOK
  <2>3. \A t \in Sections : plans'[t] = IF t = s THEN plan ELSE plans[t]
    BY <2>2
  <2>4. \A t \in Sections : plans'[t] # None =>
            /\ TemplateKnown(t)
            /\ plans'[t] = DerivedPlan(t) \/ (plans'[t] = WrittenPlan(t) /\ Writable(t))
    BY <1>1, <2>3 DEF PlansAreOurs
  <2>5. \A i \in 1..Len(executable') : executable'[i] = s \/ (i \in 1..Len(executable) /\ executable'[i] = executable[i])
    BY <1>3
  <2>6. \A i \in 1..Len(executable) : executable[i] \in Sections
    BY <1>3
  <2>7. \A i \in 1..Len(executable') : plans'[executable'[i]] # None
    BY <1>1, <1>2, <2>3, <2>5, <2>6 DEF PlansAreOurs
  <2> QED
    BY <2>1, <2>4, <2>7 DEF PlansAreOurs
<1>7. ChunksInOrder'
  <2>1. groups = <<>> /\ index = 0 /\ FlattenSeq(groups) = <<>>
    BY <1>1, FlattenEmpty DEF ChunksInOrder
  <2>2. Cut(index)' = 0
    <3>1. 0 \div Parts = 0 /\ Len(executable') = Len(executable) + 1
      BY <1>3, PartsAssumption
    <3> QED
      BY <1>3, <2>1, <3>1 DEF Cut
  <2>3. SubSeq(executable', 1, 0) = <<>>
    BY SubSeqEmpty
  <2> QED
    BY <2>1, <2>2, <2>3 DEF ChunksInOrder
<1> QED
  BY <1>4, <1>5, <1>6, <1>7

LEMMA SkipStep == CompilerInv /\ SkipTranslation => CompilerInv'
<1> SUFFICES ASSUME CompilerInv, SkipTranslation PROVE CompilerInv'
  OBVIOUS
<1> USE DEF CompilerInv, AtSection, SkipTranslation
<1>1. CompilerTypeOK /\ LoopInOrder /\ PlansAreOurs /\ ChunksInOrder /\ left # <<>>
  OBVIOUS
<1>2. CompilerTypeOK'
  BY <1>1, LoopStep DEF CompilerTypeOK
<1>3. LoopInOrder'
  <2>1. Done' = Done + 1
    BY <1>1, LoopStep DEF Done
  <2> QED
    BY <1>1, <2>1, LoopStep DEF LoopInOrder
<1>4. PlansAreOurs'
  BY <1>1, RulesStay DEF PlansAreOurs
<1>5. ChunksInOrder'
  BY <1>1, RulesStay DEF ChunksInOrder, Cut
<1> QED
  BY <1>2, <1>3, <1>4, <1>5

LEMMA ChunkKeeps == CompilerInv /\ Chunk => CompilerInv'
<1> SUFFICES ASSUME CompilerInv, Chunk PROVE CompilerInv'
  OBVIOUS
<1>1. CompilerTypeOK /\ LoopInOrder /\ PlansAreOurs /\ ChunksInOrder
  BY DEF CompilerInv
<1> DEFINE g == Slice((index + ChunkSize) \div Parts)
<1>2. /\ g \in Seq(Sections)
      /\ Len(g) >= 1 /\ Parts * Len(g) < ChunkSize + Parts
      /\ \A i \in 1..Len(g) : \E k \in 1..Len(executable) : g[i] = executable[k]
      /\ FlattenSeq(Append(groups, g)) = SubSeq(executable, 1, Cut(index + ChunkSize))
  BY <1>1, ChunkStep
<1>3. /\ groups' = Append(groups, g) /\ index' = index + ChunkSize /\ phase = "chunking"
      /\ rules' = rules /\ phase' = phase /\ left' = left /\ executable' = executable /\ plans' = plans
  BY DEF Chunk
<1> HIDE DEF g
<1>4. groups \in Seq(Seq(Sections)) /\ index \in Nat /\ ChunkSize \in Nat
  BY <1>1, ChunkSizeIsParts DEF CompilerTypeOK
<1>5. CompilerTypeOK'
  BY <1>1, <1>2, <1>3, <1>4 DEF CompilerTypeOK
<1>6. LoopInOrder'
  BY <1>1, <1>3 DEF LoopInOrder, Done
<1>7. PlansAreOurs'
  BY <1>1, <1>3, RulesStay DEF PlansAreOurs
<1>8. ChunksInOrder'
  <2>1. ChunkSize' = ChunkSize /\ Cut(index)' = Cut(index + ChunkSize)
    BY <1>3, RulesStay DEF Cut
  <2>2. \A j \in 1..Len(groups') : groups'[j] = g \/ (j \in 1..Len(groups) /\ groups'[j] = groups[j])
    BY <1>2, <1>3, <1>4
  <2>3. \A j \in 1..Len(groups') :
            /\ Len(groups'[j]) >= 1 /\ Parts * Len(groups'[j]) < ChunkSize + Parts
            /\ \A i \in 1..Len(groups'[j]) :
                   \E k \in 1..Len(executable) : groups'[j][i] = executable[k]
    <3> SUFFICES ASSUME NEW j \in 1..Len(groups')
                 PROVE  /\ Len(groups'[j]) >= 1 /\ Parts * Len(groups'[j]) < ChunkSize + Parts
                        /\ \A i \in 1..Len(groups'[j]) :
                               \E k \in 1..Len(executable) : groups'[j][i] = executable[k]
      OBVIOUS
    <3>1. CASE groups'[j] = g
      BY <1>2, <3>1
    <3>2. CASE j \in 1..Len(groups) /\ groups'[j] = groups[j]
      BY <1>1, <3>2 DEF ChunksInOrder
    <3> QED
      BY <2>2, <3>1, <3>2
  <2>4. FlattenSeq(groups') = SubSeq(executable', 1, Cut(index)')
    BY <1>2, <1>3, <2>1
  <2> QED
    BY <1>3, <2>1, <2>3, <2>4 DEF ChunksInOrder
<1> QED
  BY <1>5, <1>6, <1>7, <1>8 DEF CompilerInv

\* Steps that only move from one phase to the next.
LEMMA PhaseStep ==
    ASSUME CompilerInv, UNCHANGED <<rules, left, executable, plans, index, groups>>,
           phase' \in {"checking", "planning", "chunking", "compiled", "rejected"},
           phase' \in {"chunking", "compiled"} => left = <<>>,
           phase' = "compiled" => index >= Parts * Len(executable),
           phase' \notin {"chunking", "compiled"} => phase \notin {"chunking", "compiled"}
    PROVE  CompilerInv'
<1> USE DEF CompilerInv
<1>1. CompilerTypeOK'
  BY DEF CompilerTypeOK
<1>2. LoopInOrder'
  BY DEF LoopInOrder, Done
<1>3. PlansAreOurs'
  BY RulesStay DEF PlansAreOurs
<1>4. ChunksInOrder'
  BY RulesStay DEF ChunksInOrder, Cut
<1> QED
  BY <1>1, <1>2, <1>3, <1>4

LEMMA CompilerStep == CompilerInv /\ [CompilerNext]_compilerVars => CompilerInv'
<1> SUFFICES ASSUME CompilerInv, [CompilerNext]_compilerVars PROVE CompilerInv'
  OBVIOUS
<1>1. CASE CheckPolicy
  BY <1>1, PhaseStep DEF CheckPolicy
<1>2. CASE SkipTranslation
  BY <1>2, SkipStep
<1>3. CASE Planned
  <2>1. index = 0 /\ phase' = "chunking" /\ left = <<>>
    BY <1>3 DEF Planned, CompilerInv, ChunksInOrder
  <2> QED
    BY <1>3, <2>1, PhaseStep DEF Planned
<1>4. CASE Chunk
  BY <1>4, ChunkKeeps
<1>5. CASE Return
  <2>1. left = <<>>
    BY <1>5 DEF Return, CompilerInv, LoopInOrder
  <2> QED
    BY <1>5, <2>1, PhaseStep DEF Return
<1>6. ASSUME NEW s \in Sections, Derive(s) PROVE CompilerInv'
  BY <1>6, AddStep DEF Derive
<1>7. ASSUME NEW s \in Sections, Generate(s) PROVE CompilerInv'
  BY <1>7, AddStep DEF Generate
<1>8. ASSUME NEW s \in Sections, Reject(s) PROVE CompilerInv'
  BY <1>8, PhaseStep DEF Reject, AtSection
<1>9. CASE UNCHANGED compilerVars
  <2>1. UNCHANGED <<rules, left, executable, plans, index, groups>> /\ phase' = phase
    BY <1>9 DEF compilerVars
  <2>2. phase \in {"checking", "planning", "chunking", "compiled", "rejected"}
    BY DEF CompilerInv, CompilerTypeOK
  <2>3. phase \in {"chunking", "compiled"} => left = <<>>
    BY DEF CompilerInv, LoopInOrder
  <2>4. phase = "compiled" => index >= Parts * Len(executable)
    BY DEF CompilerInv, ChunksInOrder
  <2> QED
    BY <2>1, <2>2, <2>3, <2>4, PhaseStep
<1> QED
  BY <1>1, <1>2, <1>3, <1>4, <1>5, <1>6, <1>7, <1>8, <1>9 DEF CompilerNext

LEMMA CompilerInvariant == CompilerSpec => []CompilerInv
<1>1. CompilerInit => CompilerInv
  BY CompilerInvInit
<1>2. CompilerInv /\ [CompilerNext]_compilerVars => CompilerInv'
  BY CompilerStep
<1> QED
  BY <1>1, <1>2, PTL DEF CompilerSpec

-----------------------------------------------------------------------------
\* A group of the compiled ones is one of the sequence, and its sections are executable.
LEMMA Members ==
    ASSUME CompilerInv, NEW g \in ToSet(groups)
    PROVE  /\ Len(g) >= 1 /\ Parts * Len(g) < ChunkSize + Parts
           /\ \A s \in ToSet(g) : s \in Sections /\ plans[s] # None
<1>1. PICK j \in 1..Len(groups) : g = groups[j]
  BY DEF ToSet, CompilerInv, CompilerTypeOK
<1>2. /\ Len(g) >= 1 /\ Parts * Len(g) < ChunkSize + Parts
      /\ \A i \in 1..Len(g) : \E k \in 1..Len(executable) : g[i] = executable[k]
  BY <1>1 DEF CompilerInv, ChunksInOrder
<1>3. g \in Seq(Sections) /\ executable \in Seq(Sections)
  BY <1>1 DEF CompilerInv, CompilerTypeOK
<1>4. ASSUME NEW s \in ToSet(g) PROVE s \in Sections /\ plans[s] # None
  <2>1. PICK i \in 1..Len(g) : s = g[i]
    BY <1>3 DEF ToSet
  <2>2. PICK k \in 1..Len(executable) : s = executable[k]
    BY <1>2, <2>1
  <2> QED
    BY <1>3, <2>2 DEF CompilerInv, PlansAreOurs
<1> QED
  BY <1>2, <1>4

\* At the end nothing is left to plan and the index has passed all that was planned.
LEMMA InOrder == CompilerInv => GroupsInOrder
<1> SUFFICES ASSUME CompilerInv PROVE GroupsInOrder
  OBVIOUS
<1>1. ASSUME phase = "compiled" PROVE FlattenSeq(groups) = Planable(rules.required)
  <2> DEFINE n == Len(executable)
             p == index \div Parts
  <2>1. executable \in Seq(Sections) /\ n \in Nat /\ index \in Nat /\ rules.required \in Seq(Sections \cup {Translation})
    BY RulesAssumption DEF CompilerInv, CompilerTypeOK
  <2>2. left = <<>> /\ index >= Parts * n
    BY <1>1 DEF CompilerInv, LoopInOrder, ChunksInOrder
  <2>3. p \in Nat /\ index < Parts * p + Parts
    BY <2>1, Division
  <2>4. n <= p
    <3> HIDE DEF n, p
    <3>1. Parts * (p + 1) > Parts * n
      BY <2>1, <2>2, <2>3, PartsAssumption
    <3> QED
      BY <2>1, <2>3, <3>1, PartsAssumption
  <2>5. Cut(index) = n
    BY <2>1, <2>3, <2>4 DEF Cut
  <2>6. FlattenSeq(groups) = executable
    BY <2>1, <2>5, SubSeqFull DEF CompilerInv, ChunksInOrder
  <2>7. Done = Len(rules.required)
    BY <2>1, <2>2 DEF Done
  <2>8. executable = Planable(rules.required)
    BY <2>1, <2>7, SubSeqFull DEF CompilerInv, LoopInOrder
  <2> QED
    BY <2>6, <2>8
<1> QED
  BY <1>1, Members DEF GroupsInOrder

\* What is to be generated has been found writable.
LEMMA GeneratedPlans ==
    ASSUME CompilerInv, NEW s \in Sections, plans[s] # None, plans[s].mode = "generate"
    PROVE  plans[s] = WrittenPlan(s) /\ Writable(s) /\ TemplateKnown(s)
<1>1. TemplateKnown(s) /\ (plans[s] = DerivedPlan(s) \/ (plans[s] = WrittenPlan(s) /\ Writable(s)))
  BY DEF CompilerInv, PlansAreOurs
<1>2. DerivedPlan(s).mode = "derive"
  BY DEF DerivedPlan
<1>3. plans[s] # DerivedPlan(s)
  BY <1>2
<1> QED
  BY <1>1, <1>3

LEMMA CanRun == CompilerInv => PlansCanRun
<1> SUFFICES ASSUME CompilerInv PROVE PlansCanRun
  OBVIOUS
<1>1. CompilerTypeOK /\ rules \in Rules
  BY DEF CompilerInv, CompilerTypeOK
<1>2. ASSUME NEW s \in Sections, plans[s] # None, plans[s].mode = "generate"
      PROVE  /\ plans[s].count \in Parts..(Parts * Limit[s])
             /\ plans[s].profile["reviewer"] # None => s \in Reviewable
             /\ \A r \in Roles : plans[s].profile[r] \in Registered \cup (IF r = "reviewer" THEN {None} ELSE {})
  <2>1. plans[s] = WrittenPlan(s) /\ Writable(s) /\ TemplateKnown(s)
    BY <1>2, GeneratedPlans
  <2>2. plans[s].count = Candidates(s) /\ Candidates(s) \in Nat /\ Candidates(s) >= Parts
    BY <1>1, <2>1, CandidatesAreParts DEF WrittenPlan
  <2>3. plans[s].count \in Parts..(Parts * Limit[s])
    <3>1. Parts * Limit[s] \in Int /\ Parts \in Int
      BY PartsAssumption, RegistryAssumption
    <3>2. Candidates(s) <= Parts * Limit[s]
      BY <2>1 DEF Writable
    <3> QED
      BY <2>2, <3>1, <3>2
  <2>4. \A r \in Roles : plans[s].profile[r] = IF r \in RolesOf(s) THEN Profile(s, r) ELSE None
    BY <2>1 DEF WrittenPlan
  <2>5. \A r \in RolesOf(s) : Profile(s, r) \in Registered
    BY <2>1 DEF Writable
  <2>6. RolesOf(s) \subseteq Roles /\ \A r \in Roles : r \notin RolesOf(s) => r = "reviewer"
    BY DEF RolesOf
  <2>7. "reviewer" \in RolesOf(s) => Reviewed(s)
    BY DEF RolesOf
  <2>8. plans[s].profile["reviewer"] # None => s \in Reviewable
    <3>1. "reviewer" \in Roles
      BY DEF Roles
    <3> QED
      BY <2>1, <2>4, <2>7, <3>1 DEF Writable
  <2> QED
    BY <2>3, <2>4, <2>5, <2>6, <2>8
<1> QED
  BY <1>1, <1>2, Members DEF PlansCanRun

LEMMA OwnWords == CompilerInv => OwnWordsCount
<1> SUFFICES ASSUME CompilerInv,
                    NEW s \in Sections, plans[s] # None, plans[s].mode = "generate"
             PROVE  LET own == rules.override[s] plan == plans[s] IN
                    /\ own.candidate_count # None => plan.count = AtLeast(Parts, own.candidate_count)
                    /\ own.reviewer_required # None =>
                           (plan.profile["reviewer"] # None <=> own.reviewer_required /\ rules.reviewer_required # FALSE)
                    /\ \A r \in Roles : own[r] # None => plan.profile[r] \in {own[r], None}
  BY DEF OwnWordsCount
<1> DEFINE own == rules.override[s]
<1>1. plans[s] = WrittenPlan(s) /\ Writable(s)
  BY GeneratedPlans
<1>2. /\ plans[s].count = Candidates(s)
      /\ \A r \in Roles : plans[s].profile[r] = IF r \in RolesOf(s) THEN Profile(s, r) ELSE None
  BY <1>1 DEF WrittenPlan
<1>3. \A f \in Fields : own[f] # None => Settings(s)[f] = own[f]
  BY DEF Settings, Override, Merged, Or
<1>4. own.candidate_count # None => plans[s].count = AtLeast(Parts, own.candidate_count)
  <2>1. own["candidate_count"] # None => Settings(s)["candidate_count"] = own["candidate_count"]
    BY <1>3 DEF Fields
  <2> QED
    BY <1>2, <2>1 DEF Candidates, Or
<1>5. ASSUME own.reviewer_required # None
      PROVE  plans[s].profile["reviewer"] # None <=> own.reviewer_required /\ rules.reviewer_required # FALSE
  <2>1. Settings(s)["reviewer_required"] = own["reviewer_required"]
    BY <1>3, <1>5 DEF Fields
  <2>2. own.reviewer_required \in BOOLEAN /\ rules.reviewer_required \in BOOLEAN \cup {None}
    BY <1>5, RulesAssumption DEF CompilerInv, CompilerTypeOK, IsSettings
  <2>3. Quality <=> rules.reviewer_required # FALSE
    BY <2>2, RegistryAssumption DEF Quality, Or
  <2>4. Reviewed(s) <=> Quality /\ own.reviewer_required
    BY <1>5, <2>1 DEF Reviewed, Or
  <2>5. "reviewer" \in Roles /\ ("reviewer" \in RolesOf(s) <=> Reviewed(s))
    BY DEF RolesOf, Roles
  <2>6. "reviewer" \in RolesOf(s) => Profile(s, "reviewer") # None
    BY <1>1, RegistryAssumption DEF Writable
  <2> QED
    BY <1>2, <2>3, <2>4, <2>5, <2>6
<1>6. ASSUME NEW r \in Roles, own[r] # None PROVE plans[s].profile[r] \in {own[r], None}
  <2>1. Settings(s)[r] = own[r]
    BY <1>3, <1>6 DEF Fields
  <2> QED
    BY <1>2, <1>6, <2>1 DEF Profile, Or
<1> QED
  BY <1>4, <1>5, <1>6

\* The parallelGroups of compileExecutionSpec are the required sections without the
\* translation, in their order: chunkSections loses none and repeats none, and none of
\* its chunks is empty or larger than the policy's concurrency, whole or not.
THEOREM GroupsKeepTheirOrder == CompilerSpec => []GroupsInOrder
  BY CompilerInvariant, InOrder, PTL

\* What compileExecutionSpec returns can be run: a section of a group has a plan that its
\* writer can work by, with profiles of the registry, whatever layers it comes from.
THEOREM CompiledPlansCanRun == CompilerSpec => []PlansCanRun
  BY CompilerInvariant, CanRun, PTL

\* mergeSectionOverride and the lookups after it let a tenant's own words about a section
\* go before its templates, its specialists and the registry.
THEOREM TenantsWordsCount == CompilerSpec => []OwnWordsCount
  BY CompilerInvariant, OwnWords, PTL

-----------------------------------------------------------------------------
(* BulletRepair.  What counts as an error, and what it weighs, is left as   *)
(* it is: the proofs only use that all is measured alike.                   *)

\* A set of line numbers that is not empty has a first one.
LEMMA MinIsMember ==
    ASSUME NEW T \in SUBSET Nat, T # {}
    PROVE  Min(T) \in T
<1>1. \E x \in T : \A y \in T : ~ (<<y, x>> \in OpToRel(<, Nat))
  BY NatLessThanWellFounded, WFMin
<1>2. PICK x \in T : \A y \in T : ~ (y < x)
  BY <1>1 DEF OpToRel
<1>3. \A y \in T : x =< y
  BY <1>2
<1>4. QED
  BY <1>3 DEF Min

Complete == lines \in [1..LineCount -> LineTexts]

\* The repair works on lines that an error of the first content was about, and
\* calls are sent only for contents with the right number of lines.
Shape ==
    /\ pc \in {"line", "calls", "done"}
    /\ targets \subseteq Targets(Errors(start))
    /\ lines \in Contents
    /\ pc # "done" => targets # {}
    /\ pc = "calls" => Complete

LEMMA TargetFacts ==
    ASSUME Shape, pc # "done"
    PROVE  Target \in targets /\ Target \in 1..LineCount
<1>1. targets \subseteq 1..LineCount
  BY DEF Shape, Targets
<1>2. targets \in SUBSET Nat
  BY <1>1, BoundAssumption
<1>3. QED
  BY <1>1, <1>2, MinIsMember DEF Shape, Target

\* Bullets in the wrong number, or not validated at all, leave nothing to repair.
LEMMA NoTargets ==
    /\ Targets({CountError}) = {}
    /\ Targets({ParseError}) = {}
BY BoundAssumption DEF Targets, Relevant, LineOfError, CountError, ParseError

LEMMA ShapeInit == Init => Shape
<1> SUFFICES ASSUME Init PROVE Shape
  OBVIOUS
<1>1. targets \subseteq Targets(Errors(start))
  BY NoTargets DEF Init
<1>2. QED
  BY <1>1 DEF Init, Shape

\* The number of lines is about no line: with a wrong one every line is fine.
LEMMA OnlyCompleteLines ==
    ASSUME lines \in Contents, NEW t \in 1..LineCount, Relevant(t, Errors(lines)) # {}
    PROVE  Complete
<1>1. DOMAIN lines = 1..LineCount
  <2> SUFFICES ASSUME DOMAIN lines # 1..LineCount PROVE FALSE
    OBVIOUS
  <2>1. Errors(lines) = {CountError}
    BY DEF Errors
  <2>2. LineOfError(CountError) # t
    BY BoundAssumption DEF LineOfError, CountError
  <2>3. QED
    BY <2>1, <2>2 DEF Relevant
<1>2. QED
  BY <1>1 DEF Contents, Complete

\* Leaving a line keeps the shape, whatever the lines have become.
LEMMA LeaveShape ==
    ASSUME Shape, LeaveLine, start' = start, pc # "done", lines' \in Contents
    PROVE  Shape'
BY DEF LeaveLine, Shape

LEMMA NextRoundShape ==
    ASSUME Shape, NextRound, start' = start, pc # "done", lines' \in Contents
    PROVE  Shape'
BY DEF NextRound, Shape

\* What a call answered with is a bullet that weighs no more than the line it is
\* to replace; the lines do not change while calls are out.
AnswersFit ==
    /\ calls \in [Pair -> Call]
    /\ pc = "calls" =>
          \A i \in Answered : Weight(Target, With(calls[i].line)) <= Weight(Target, lines)

LEMMA IdleFits == Idle \in [Pair -> Call] /\ \A i \in Pair : Idle[i].state # "answered"
BY DEF Idle, Call

LEMMA AnsweredLine ==
    ASSUME AnswersFit, NEW i \in Answered
    PROVE  calls[i].line \in LineTexts \cup {Nothing}
BY DEF AnswersFit, Answered, Call

\* A sequence without one of its elements.
LEMMA RemoveAtShape ==
    ASSUME NEW S, NEW n \in Nat, NEW s \in [1..n -> S], NEW t \in 1..n
    PROVE  RemoveAt(s, t) \in [1..(n - 1) -> S]
<1>1. s \in Seq(S) /\ Len(s) = n
  BY SeqDef, LenProperties
<1> DEFINE f == SubSeq(s, 1, t - 1)
           g == SubSeq(s, t + 1, n)
<1>2. f \in Seq(S) /\ Len(f) = t - 1
  BY <1>1, SubSeqProperties
<1>3. g \in Seq(S) /\ Len(g) = n - t
  BY <1>1, SubSeqProperties
<1>4. f \o g \in Seq(S) /\ Len(f \o g) = n - 1
  BY <1>2, <1>3, ConcatProperties
<1>5. f \o g \in [1..(n - 1) -> S]
  BY <1>4, LenProperties
<1>6. QED
  BY <1>1, <1>5 DEF RemoveAt

\* A bullet takes the place of the target; what comes to nothing leaves a line too few.
LEMMA WithShape ==
    ASSUME Shape, pc = "calls", NEW x \in LineTexts \cup {Nothing}
    PROVE  /\ With(x) \in Contents
           /\ x # Nothing => With(x) = [lines EXCEPT ![Target] = x]
           /\ x = Nothing => DOMAIN With(x) # 1..LineCount
<1>1. Complete /\ Target \in 1..LineCount /\ LineCount \in Nat
  BY TargetFacts, BoundAssumption DEF Shape
<1>2. CASE x = Nothing
  <2>1. With(x) = RemoveAt(lines, Target)
    BY <1>2 DEF With
  <2>2. With(x) \in [1..(LineCount - 1) -> LineTexts]
    <3>1. lines \in [1..LineCount -> LineTexts]
      BY <1>1 DEF Complete
    <3>2. RemoveAt(lines, Target) \in [1..(LineCount - 1) -> LineTexts]
      BY <1>1, <3>1, RemoveAtShape, Zenon
    <3>3. QED
      BY <2>1, <3>2
  <2>3. DOMAIN With(x) = 1..(LineCount - 1)
    BY <2>2
  <2>4. LineCount \notin 1..(LineCount - 1) /\ LineCount \in 1..LineCount
    BY BoundAssumption
  <2>5. QED
    BY <1>2, <2>2, <2>3, <2>4 DEF Contents
<1>3. CASE x # Nothing
  BY <1>1, <1>3 DEF With, Contents, Complete
<1>4. QED
  BY <1>2, <1>3

\* The texts in an answer, and the line as it is, are texts.
LEMMA PicksFacts ==
    ASSUME Shape, pc = "calls", NEW variants \in Answers, NEW x \in Picks(variants)
    PROVE  /\ x \in LineTexts \cup {Nothing}
           /\ Weight(Target, With(x)) <= Weight(Target, lines)
<1>1. lines[Target] \in LineTexts
  BY TargetFacts DEF Shape, Complete
<1>2. With(lines[Target]) = lines
  <2>1. lines[Target] # Nothing
    BY <1>1, TextAssumption
  <2>2. QED
    BY <2>1, TargetFacts DEF Shape, Complete, With
<1>3. Weight(Target, With(x)) <= Weight(Target, With(lines[Target]))
  BY DEF Picks
<1>4. QED
  BY <1>1, <1>2, <1>3, TextAssumption DEF Picks

LEMMA ShapeStep == Shape /\ AnswersFit /\ [Next]_vars => Shape'
<1> SUFFICES ASSUME Shape, AnswersFit, [Next]_vars PROVE Shape'
  OBVIOUS
<1>1. CASE LineIsFine
  BY <1>1, LeaveShape DEF LineIsFine, Shape
<1>2. CASE StartRound
  <2>1. Target \in 1..LineCount
    BY <1>2, TargetFacts DEF StartRound
  <2>2. Complete
    BY <1>2, <2>1, OnlyCompleteLines DEF StartRound, Shape
  <2>3. QED
    BY <1>2, <2>2 DEF StartRound, Shape, Complete
<1>3. ASSUME NEW i \in Pair, CallAnswers(i) \/ CallFails(i) PROVE Shape'
  BY <1>3 DEF CallAnswers, CallFails, Shape, Complete
<1>4. CASE RoundChooses
  <2>1. PICK i \in Answered : lines' = With(calls[i].line) /\ (LeaveLine \/ NextRound)
    BY <1>4 DEF RoundChooses
  <2>2. pc = "calls" /\ start' = start
    BY <1>4 DEF RoundChooses, RoundSettled
  <2>3. lines' \in Contents
    <3>1. calls[i].line \in LineTexts \cup {Nothing}
      BY AnsweredLine
    <3>2. PICK x \in LineTexts \cup {Nothing} : lines' = With(x)
      BY <2>1, <3>1
    <3>3. QED
      BY <2>2, <3>2, WithShape
  <2>4. QED
    BY <2>1, <2>2, <2>3, LeaveShape, NextRoundShape
<1>5. CASE RoundIsLost
  <2>1. /\ LeaveLine \/ NextRound
        /\ pc # "done" /\ start' = start /\ lines' = lines
    BY <1>5 DEF RoundIsLost, RoundSettled
  <2>2. lines' \in Contents
    BY <2>1 DEF Shape
  <2>3. QED
    BY <2>1, <2>2, LeaveShape, NextRoundShape
<1>6. CASE UNCHANGED vars
  BY <1>6 DEF vars, Shape, Complete
<1>7. QED
  BY <1>1, <1>2, <1>3, <1>4, <1>5, <1>6 DEF Next, Step

LEMMA AnswersStep == Shape /\ AnswersFit /\ [Next]_vars => AnswersFit'
<1> SUFFICES ASSUME Shape, AnswersFit, [Next]_vars PROVE AnswersFit'
  OBVIOUS
<1>1. CASE calls' = Idle
  BY <1>1, IdleFits DEF AnswersFit, Answered
<1>2. CASE StartRound
  BY <1>2 DEF StartRound, AnswersFit, Answered, Call
<1>3. ASSUME NEW i \in Pair, CallAnswers(i) PROVE AnswersFit'
  <2>1. PICK variants \in Answers : \E x \in Picks(variants) :
            calls' = [calls EXCEPT ![i] = [state |-> "answered", line |-> x]]
    BY <1>3 DEF CallAnswers
  <2>2. PICK x \in Picks(variants) :
            calls' = [calls EXCEPT ![i] = [state |-> "answered", line |-> x]]
    BY <2>1
  <2>3. pc = "calls" /\ UNCHANGED <<pc, lines, targets, start>>
    BY <1>3 DEF CallAnswers
  <2>4. x \in LineTexts \cup {Nothing} /\ Weight(Target, With(x)) <= Weight(Target, lines)
    BY <2>2, <2>3, PicksFacts
  <2>5. calls' \in [Pair -> Call]
    BY <2>2, <2>4 DEF AnswersFit, Call
  <2>6. ASSUME NEW j \in Answered'
        PROVE  Weight(Target, With(calls'[j].line)) <= Weight(Target, lines)
    <3>1. CASE j = i
      BY <2>2, <2>4, <3>1 DEF AnswersFit
    <3>2. CASE j # i
      BY <2>2, <2>3, <2>6, <3>2 DEF AnswersFit, Answered
    <3>3. QED
      BY <3>1, <3>2
  <2>7. QED
    BY <2>3, <2>5, <2>6 DEF AnswersFit, Target, With, Weight
<1>4. ASSUME NEW i \in Pair, CallFails(i) PROVE AnswersFit'
  <2>1. pc = "calls" /\ UNCHANGED <<pc, lines, targets, start>>
    BY <1>4 DEF CallFails
  <2>2. calls' \in [Pair -> Call]
    BY <1>4 DEF CallFails, AnswersFit, Call
  <2>3. \A j \in Answered' : j \in Answered /\ calls'[j] = calls[j]
    BY <1>4 DEF CallFails, AnswersFit, Answered
  <2>4. QED
    BY <2>1, <2>2, <2>3 DEF AnswersFit, Target, With, Weight
<1>5. CASE UNCHANGED vars
  BY <1>5 DEF vars, AnswersFit, Answered, Target, With, Weight
<1>6. QED
  BY <1>1, <1>2, <1>3, <1>4, <1>5
     DEF Next, Step, LineIsFine, RoundChooses, RoundIsLost, LeaveLine, NextRound

LEMMA Shaped == Spec => [](Shape /\ AnswersFit)
<1>1. Init => AnswersFit
  BY IdleFits DEF Init, AnswersFit, Answered
<1>2. QED
  BY <1>1, ShapeInit, ShapeStep, AnswersStep, PTL DEF Spec

LEMMA TypeStep ==
    ASSUME TypeOK, Shape, AnswersFit, [Next]_vars, Shape', AnswersFit'
    PROVE  TypeOK'
<1>1. targets' \subseteq 1..LineCount
  BY DEF Shape, Targets
<1>2. round' \in 1..MaxRounds
  <2>1. 1 \in 1..MaxRounds
    BY BoundAssumption
  <2>2. round < MaxRounds => round + 1 \in 1..MaxRounds
    BY BoundAssumption DEF TypeOK
  <2>3. round' = 1 \/ round' = round \/ (round < MaxRounds /\ round' = round + 1)
    BY DEF Next, Step, LineIsFine, StartRound, CallAnswers, CallFails, RoundChooses,
           RoundIsLost, LeaveLine, NextRound, vars
  <2>4. QED
    BY <2>1, <2>2, <2>3 DEF TypeOK
<1>3. start' \in Contents
  BY DEF TypeOK, Next, Step, LineIsFine, StartRound, CallAnswers, CallFails,
         RoundChooses, RoundIsLost, vars
<1>4. lines' \in Contents
  BY DEF Shape
<1>5. QED
  BY <1>1, <1>2, <1>3, <1>4 DEF TypeOK, Shape, AnswersFit

\* Every state of the repair is well typed, for any bullets, lines and rounds.
THEOREM BulletTypes == Spec => []TypeOK
<1>1. Init => TypeOK
  <2> SUFFICES ASSUME Init PROVE TypeOK
    OBVIOUS
  <2>1. targets \subseteq 1..LineCount
    BY DEF Init, Targets
  <2>2. QED
    BY <2>1, IdleFits, BoundAssumption DEF Init, TypeOK
<1>2. TypeOK /\ (Shape /\ AnswersFit) /\ [Next]_vars => TypeOK'
  BY TypeStep, ShapeStep, AnswersStep
<1>3. QED
  BY <1>1, <1>2, Shaped, PTL DEF Spec

-----------------------------------------------------------------------------
\* Reported errors are those of the lines, or there are some.
ReportFits == errors = {} => Errors(lines) = {}

LEMMA ReportStep == ReportFits /\ [Next]_vars => ReportFits'
<1> SUFFICES ASSUME ReportFits, [Next]_vars PROVE ReportFits'
  OBVIOUS
<1>1. CASE LineIsFine
  BY <1>1 DEF LineIsFine, ReportFits
<1>2. CASE RoundChooses
  BY <1>2 DEF RoundChooses, Report, ReportFits
<1>3. CASE UNCHANGED <<errors, lines>>
  BY <1>3 DEF ReportFits
<1>4. QED
  BY <1>1, <1>2, <1>3
     DEF Next, Step, StartRound, CallAnswers, CallFails, RoundIsLost, vars

\* Bullets that the caller accepts are valid, although each repair looked only at
\* the errors of its own line.
THEOREM AcceptedBulletsAreValid == Spec => []AcceptedIsValid
<1>1. Init => ReportFits
  BY DEF Init, ReportFits
<1>2. ReportFits => AcceptedIsValid
  BY DEF ReportFits, AcceptedIsValid
<1>3. QED
  BY <1>1, <1>2, ReportStep, PTL DEF Spec

\* As long as the lines keep their number, they differ only where an error pointed.
LEMMA OthersStep == Shape /\ AnswersFit /\ OthersStay /\ [Next]_vars => OthersStay'
<1> SUFFICES ASSUME Shape, AnswersFit, OthersStay, [Next]_vars PROVE OthersStay'
  OBVIOUS
<1>1. CASE RoundChooses
  <2>1. PICK i \in Answered : lines' = With(calls[i].line)
    BY <1>1 DEF RoundChooses
  <2>2. PICK x \in LineTexts \cup {Nothing} : lines' = With(x)
    BY <2>1, AnsweredLine
  <2>3. start' = start /\ pc = "calls"
    BY <1>1 DEF RoundChooses, RoundSettled
  <2>4. Target \in Targets(Errors(start)) /\ DOMAIN start = 1..LineCount
    <3>1. Target \in Targets(Errors(start))
      BY <2>3, TargetFacts DEF Shape
    <3>2. QED
      BY <3>1, NoTargets DEF Errors
  <2>5. CASE x = Nothing
    BY <2>2, <2>3, <2>4, <2>5, WithShape DEF OthersStay
  <2>6. CASE x # Nothing
    <3>1. lines' = [lines EXCEPT ![Target] = x]
      BY <2>2, <2>3, <2>6, WithShape
    <3>2. DOMAIN lines = DOMAIN start
      BY <2>3, <2>4 DEF Shape, Complete
    <3>3. ASSUME NEW k \in DOMAIN start, k \notin Targets(Errors(start))
          PROVE  lines'[k] = start[k]
      <4>1. k # Target /\ lines[k] = start[k]
        BY <2>4, <3>2, <3>3 DEF OthersStay
      <4>2. QED
        BY <3>1, <3>2, <4>1
    <3>4. QED
      BY <2>3, <3>3 DEF OthersStay
  <2>7. QED
    BY <2>2, <2>5, <2>6
<1>2. CASE UNCHANGED <<lines, start>>
  BY <1>2 DEF OthersStay
<1>3. QED
  BY <1>1, <1>2
     DEF Next, Step, LineIsFine, StartRound, CallAnswers, CallFails, RoundIsLost, vars

\* Lines that no error pointed at come out of the repair as they went in, unless a
\* line was lost.
THEOREM OtherLinesStay == Spec => []OthersStay
<1>1. Init => OthersStay
  BY DEF Init, OthersStay
<1>2. QED
  BY <1>1, OthersStep, Shaped, PTL DEF Spec

LEMMA HarmStep ==
    ASSUME Shape, AnswersFit, [Next]_vars, lines' # lines
    PROVE  Weight(Target, lines') <= Weight(Target, lines)
<1>1. RoundChooses
  BY DEF Next, Step, LineIsFine, StartRound, CallAnswers, CallFails, RoundIsLost, vars
<1>2. PICK i \in Answered : lines' = With(calls[i].line)
  BY <1>1 DEF RoundChooses
<1>3. pc = "calls"
  BY <1>1 DEF RoundChooses, RoundSettled
<1>4. QED
  BY <1>2, <1>3 DEF AnswersFit

\* No round makes the errors of the line it repairs weigh more.
THEOREM NoRepairHarmsItsLine == Spec => RepairsDoNotHarm
<1>1. Shape /\ AnswersFit /\ [Next]_vars
      => [lines' # lines => Weight(Target, lines') <= Weight(Target, lines)]_vars
  BY HarmStep
<1>2. QED
  BY <1>1, Shaped, PTL DEF Spec, RepairsDoNotHarm
-----------------------------------------------------------------------------
(* Why a repair ends: no step repeats what was done.                        *)

Waiting == {i \in Pair : calls[i].state = "calling"}

\* A step leaves a line for good, begins a further round of the line, sends its two
\* calls, or ends one of them.
RepairAdvances ==
    \/ targets' \subseteq targets /\ targets' # targets
    \/ UNCHANGED targets /\ round' > round
    \/ UNCHANGED <<targets, round>> /\ pc = "line" /\ pc' = "calls"
    \/ /\ UNCHANGED <<targets, round, pc>>
       /\ Waiting' \subseteq Waiting /\ Waiting' # Waiting

LEMMA CallsAdvance ==
    ASSUME calls \in [Pair -> Call], NEW i \in Pair, CallAnswers(i) \/ CallFails(i)
    PROVE  Waiting' \subseteq Waiting /\ Waiting' # Waiting
<1>1. i \in Waiting
  BY DEF CallAnswers, CallFails, Waiting
<1>2. PICK c : calls' = [calls EXCEPT ![i] = c] /\ c.state # "calling"
  <2>1. CASE CallAnswers(i)
    <3>1. PICK x : calls' = [calls EXCEPT ![i] = [state |-> "answered", line |-> x]]
      BY <2>1 DEF CallAnswers
    <3>2. [state |-> "answered", line |-> x].state # "calling"
      OBVIOUS
    <3>3. QED
      BY <3>1, <3>2
  <2>2. CASE CallFails(i)
    <3>1. calls' = [calls EXCEPT ![i] = [state |-> "failed"]]
      BY <2>2 DEF CallFails
    <3>2. [state |-> "failed"].state # "calling"
      OBVIOUS
    <3>3. QED
      BY <3>1, <3>2
  <2>3. QED
    BY <2>1, <2>2
<1>3. i \notin Waiting'
  BY <1>2 DEF Waiting
<1>4. Waiting' \subseteq Waiting
  BY <1>2 DEF Waiting
<1>5. QED
  BY <1>1, <1>3, <1>4

LEMMA RepairStep ==
    ASSUME TypeOK, Shape, Next
    PROVE  RepairAdvances
<1>1. CASE LineIsFine \/ RoundChooses \/ RoundIsLost
  <2>1. LeaveLine \/ NextRound
    BY <1>1 DEF LineIsFine, RoundChooses, RoundIsLost
  <2>2. CASE LeaveLine
    <3>1. pc # "done"
      BY <1>1 DEF LineIsFine, RoundChooses, RoundIsLost, RoundSettled
    <3>2. Target \in targets
      BY <3>1, TargetFacts
    <3>3. targets' = targets \ {Target}
      BY <2>2 DEF LeaveLine
    <3>4. QED
      BY <3>2, <3>3 DEF RepairAdvances
  <2>3. CASE NextRound
    BY <2>3 DEF NextRound, RepairAdvances, TypeOK
  <2>4. QED
    BY <2>1, <2>2, <2>3
<1>2. CASE StartRound
  BY <1>2 DEF StartRound, RepairAdvances
<1>3. ASSUME NEW i \in Pair, CallAnswers(i) \/ CallFails(i) PROVE RepairAdvances
  <2>1. UNCHANGED <<targets, round, pc>>
    BY <1>3 DEF CallAnswers, CallFails
  <2>2. Waiting' \subseteq Waiting /\ Waiting' # Waiting
    BY <1>3, CallsAdvance DEF TypeOK
  <2>3. QED
    BY <2>1, <2>2 DEF RepairAdvances
<1>4. QED
  BY <1>1, <1>2, <1>3 DEF Next, Step

\* The repair makes no step twice, whether or not its calls are answered: at most
\* MaxRounds rounds of two calls for a line, and then the next line.
THEOREM RepairsAdvance == Spec => [][RepairAdvances]_vars
<1>1. TypeOK /\ (Shape /\ AnswersFit) /\ [Next]_vars => [RepairAdvances]_vars
  BY RepairStep
<1>2. QED
  BY <1>1, Shaped, BulletTypes, PTL DEF Spec
=============================================================================
