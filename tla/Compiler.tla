------------------------------ MODULE Compiler ------------------------------
(***************************************************************************)
(* compileExecutionSpec of agent-runtime/compiler.ts: a tenant's rules and *)
(* runtime policy, laid over the defaults of the registry, become the      *)
(* groups and section plans that the section planner (SectionPlanner)      *)
(* works by -- or are rejected, and the job with them.                     *)
(*                                                                         *)
(* What a tenant leaves open is None.  The numbers of a policy need not be *)
(* whole: concurrency and candidates are counted in parts of one.          *)
(***************************************************************************)
EXTENDS Integers, Sequences, SequencesExt

CONSTANTS
    Sections,          (* what rules may require                             *)
    Derived,           (* those copied from the keywords: search_terms       *)
    Translation,       (* the required section nobody writes here            *)
    TemplateNames,     (* team templates that a policy may name              *)
    Profiles,          (* model profiles that a policy may name              *)
    Registered,        (* those of the registry                              *)
    Limit,             (* maxCandidateCount of a section's writer, 0: none   *)
    Reviewable,        (* sections whose writer supports a reviewer          *)
    DefaultOverride,   (* the registry's section overrides                   *)
    DefaultTemplate,   (* the registry's templates, None: no such            *)
    DefaultProfile,    (* defaultModelProfile of each blueprint              *)
    DefaultConcurrency,
    Parts,             (* the parts that one is divided in                   *)
    Rules,             (* the rules considered                               *)
    None

Roles == {"writer", "reviewer", "repairer"}

\* A section's writer goes by the section's name: the registry has one for a section.
Blueprints == Sections \cup {"planner", "translator", "reviewer", "repairer"}

\* A team template, or a section's override: nothing of it has to be given.
Fields == {"team_template", "reviewer_required", "candidate_count"} \cup Roles

Blank == [f \in Fields |-> None]

\* What a template or an override may say: parseRuntimePolicy checks the types.
IsSettings(o) ==
    /\ o.team_template \in TemplateNames \cup {None}
    /\ o.reviewer_required \in BOOLEAN \cup {None}
    /\ o.candidate_count \in Int \cup {None}

\* What is compiled of a section.
Plan == [mode : {"generate", "derive"}, count : Nat \ {0}, profile : [Roles -> Profiles \cup {None}]]

ASSUME RegistryAssumption ==
    /\ Registered \subseteq Profiles /\ Derived \subseteq Sections
    /\ Limit \in [Sections -> Nat] /\ DefaultConcurrency \in Nat
    /\ DefaultProfile \in [Blueprints -> Registered]
    /\ \A n \in TemplateNames : DefaultTemplate[n] # None =>
           /\ IsSettings(DefaultTemplate[n])
           /\ \A r \in Roles : DefaultTemplate[n][r] \in Registered \cup {None}
    /\ \A s \in Sections :
           /\ IsSettings(DefaultOverride[s])
           /\ \A r \in Roles : DefaultOverride[s][r] \in Registered \cup {None}
    /\ None \notin Profiles \cup Int \cup BOOLEAN \cup TemplateNames \cup Plan
    /\ Translation \notin Sections

ASSUME PartsAssumption == Parts \in Nat \ {0}

ASSUME RulesAssumption ==
    \A policy \in Rules :
        /\ policy.required \in Seq(Sections \cup {Translation})
        /\ policy.concurrency \in Int \cup {None}
        /\ policy.reviewer_required \in BOOLEAN \cup {None}
        /\ \A s \in Sections : IsSettings(policy.override[s])
        /\ \A n \in TemplateNames : policy.templates[n] # None => IsSettings(policy.templates[n])

VARIABLES
    rules,        (* the rules' required sections and runtimePolicy          *)
    phase,        (* where compileExecutionSpec is                           *)
    left,         (* the required sections still to plan                     *)
    executable,   (* executableSections                                      *)
    plans,        (* sectionPlans                                            *)
    index,        (* of chunkSections, in parts of one                       *)
    groups        (* parallelGroups                                          *)

compilerVars == <<rules, phase, left, executable, plans, index, groups>>

-----------------------------------------------------------------------------
(* Defaults                                                                *)

\* a ?? b
Or(a, b) == IF a # None THEN a ELSE b

AtLeast(low, n) == IF n < low THEN low ELSE n

Merged(over, under) == [f \in Fields |-> Or(over[f], under[f])]

Override(s) == Merged(rules.override[s], DefaultOverride[s])

\* A policy's template hides the registry's of the same name.
Named(name) == Or(rules.templates[name], DefaultTemplate[name])

TemplateKnown(s) ==
    LET name == Override(s).team_template IN name # None => Named(name) # None

Template(s) ==
    LET name == Override(s).team_template IN IF name = None THEN Blank ELSE Named(name)

\* Variant: the template goes before the override.
SettingsOfTemplate(s) == Merged(Template(s), Override(s))

Settings(s) == Merged(Override(s), Template(s))

Quality == Or(rules.reviewer_required, TRUE)

Candidates(s) == AtLeast(Parts, Or(Settings(s).candidate_count, Parts))

\* A section has a reviewer when it asks for one and the whole policy does.
Reviewed(s) == Quality /\ Or(Settings(s).reviewer_required, Quality)

RolesOf(s) == IF Reviewed(s) THEN Roles ELSE Roles \ {"reviewer"}

Blueprint(s, role) == IF role = "writer" THEN s ELSE role

Profile(s, role) ==
    Or(Settings(s)[role], Or(rules.specialists[Blueprint(s, role)], DefaultProfile[Blueprint(s, role)]))

\* Groups of one unless the policy's intent is maximize_parallelism.
ChunkSize ==
    IF rules.parallel THEN AtLeast(Parts, Or(rules.concurrency, Parts * DefaultConcurrency)) ELSE Parts

-----------------------------------------------------------------------------
CompilerTypeOK ==
    /\ rules \in Rules
    /\ phase \in {"checking", "planning", "chunking", "compiled", "rejected"}
    /\ left \in Seq(Sections \cup {Translation})
    /\ executable \in Seq(Sections)
    /\ plans \in [Sections -> Plan \cup {None}]
    /\ index \in Nat
    /\ groups \in Seq(Seq(Sections))

\* loadTenantRules has made sure that every required section has a rule.
CompilerInit ==
    /\ rules \in Rules
    /\ left = rules.required
    /\ phase = "checking"
    /\ executable = <<>>
    /\ plans = [s \in Sections |-> None]
    /\ index = 0
    /\ groups = <<>>

Known(profile) == profile \in Registered \cup {None}

TemplatesKnown ==
    \A n \in TemplateNames : rules.templates[n] # None => \A r \in Roles : Known(rules.templates[n][r])

\* The policy's specialists, handoffs and templates, whether or not they are used.
\* strays stands for every other reason to compile nothing: no policy at all
\* (requireRuntimePolicy), or a name no section could use.
PolicyKnown ==
    /\ ~rules.strays
    /\ \A b \in Blueprints : Known(rules.specialists[b])
    /\ TemplatesKnown

CheckPolicy ==
    /\ phase = "checking"
    /\ phase' = IF PolicyKnown THEN "planning" ELSE "rejected"
    /\ UNCHANGED <<rules, left, executable, plans, index, groups>>

-----------------------------------------------------------------------------
(* The loop over rules.requiredSections                                    *)

AtSection(s) == phase = "planning" /\ left # <<>> /\ Head(left) = s

Add(s, plan) ==
    /\ plans' = [plans EXCEPT ![s] = plan]
    /\ executable' = Append(executable, s)
    /\ left' = Tail(left)
    /\ UNCHANGED <<rules, phase, index, groups>>

SkipTranslation ==
    /\ AtSection(Translation)
    /\ left' = Tail(left)
    /\ UNCHANGED <<rules, phase, executable, plans, index, groups>>

DerivedPlan(s) == [mode |-> "derive", count |-> Candidates(s), profile |-> [r \in Roles |-> None]]

Derive(s) ==
    /\ AtSection(s) /\ s \in Derived /\ TemplateKnown(s)
    /\ Add(s, DerivedPlan(s))

\* Variant: only profiles of templates are looked up.
WritableUnchecked(s) ==
    /\ Limit[s] # 0
    /\ Candidates(s) <= Parts * Limit[s]
    /\ Reviewed(s) => s \in Reviewable

Writable(s) ==
    /\ Limit[s] # 0
    /\ Candidates(s) <= Parts * Limit[s]
    /\ Reviewed(s) => s \in Reviewable
    /\ \A r \in RolesOf(s) : Profile(s, r) \in Registered

WrittenPlan(s) ==
    [mode |-> "generate", count |-> Candidates(s),
     profile |-> [r \in Roles |-> IF r \in RolesOf(s) THEN Profile(s, r) ELSE None]]

Generate(s) ==
    /\ AtSection(s) /\ s \notin Derived /\ TemplateKnown(s) /\ Writable(s)
    /\ Add(s, WrittenPlan(s))

Reject(s) ==
    /\ AtSection(s)
    /\ TemplateKnown(s) => s \notin Derived /\ ~Writable(s)
    /\ phase' = "rejected"
    /\ UNCHANGED <<rules, left, executable, plans, index, groups>>

Planned ==
    /\ phase = "planning" /\ left = <<>>
    /\ phase' = "chunking"
    /\ UNCHANGED <<rules, left, executable, plans, index, groups>>

-----------------------------------------------------------------------------
(* chunkSections: slice takes the whole part of its bounds                 *)

\* Variant: slice taken to include its end.
SliceThrough(end) == SubSeq(executable, (index \div Parts) + 1, IF end < Len(executable) THEN end + 1 ELSE end)

Slice(end) == SubSeq(executable, (index \div Parts) + 1, IF end < Len(executable) THEN end ELSE Len(executable))

Chunk ==
    /\ phase = "chunking" /\ index < Parts * Len(executable)
    /\ groups' = Append(groups, Slice((index + ChunkSize) \div Parts))
    /\ index' = index + ChunkSize
    /\ UNCHANGED <<rules, phase, left, executable, plans>>

Return ==
    /\ phase = "chunking" /\ index >= Parts * Len(executable)
    /\ phase' = "compiled"
    /\ UNCHANGED <<rules, left, executable, plans, index, groups>>

-----------------------------------------------------------------------------
CompilerNext ==
    \/ CheckPolicy \/ SkipTranslation \/ Planned \/ Chunk \/ Return
    \/ \E s \in Sections : Derive(s) \/ Generate(s) \/ Reject(s)

CompilerSpec == CompilerInit /\ [][CompilerNext]_compilerVars

-----------------------------------------------------------------------------
(* Properties.                                                             *)

\* The required sections without the translation, in their order.
Planable(required) ==
    FlattenSeq([i \in DOMAIN required |-> IF required[i] = Translation THEN <<>> ELSE <<required[i]>>])

\* Whatever the concurrency -- zero, not whole, larger than the rules -- the groups
\* hold the required sections in their order, none lost and none added, and none is
\* empty or has more sections at a time than the policy wants.
GroupsInOrder ==
    /\ \A g \in ToSet(groups) : Len(g) >= 1 /\ Parts * Len(g) < ChunkSize + Parts
    /\ phase = "compiled" => FlattenSeq(groups) = Planable(rules.required)

\* What has been compiled can be run: each section of a group has a plan, with at least
\* one candidate, no more than its writer takes and no reviewer its writer cannot work
\* with, and the profile of every role of it is one that the run will find.  All along
\* the state is well typed.
PlansCanRun ==
    /\ CompilerTypeOK
    /\ phase = "compiled" =>
        \A g \in ToSet(groups) : \A s \in ToSet(g) :
            LET plan == plans[s] IN
            /\ plan # None
            /\ plan.mode = "generate" =>
                   /\ plan.count \in Parts..(Parts * Limit[s])
                   /\ plan.profile["reviewer"] # None => s \in Reviewable
                   /\ \A r \in Roles : plan.profile[r] \in Registered \cup (IF r = "reviewer" THEN {None} ELSE {})

\* What a tenant says of a section itself counts, whatever templates, specialists and
\* the registry say; only a reviewer it asks for can be denied, by the whole policy.
OwnWordsCount ==
    \A s \in Sections :
        LET own == rules.override[s] plan == plans[s] IN
        plan # None /\ plan.mode = "generate" =>
            /\ own.candidate_count # None => plan.count = AtLeast(Parts, own.candidate_count)
            /\ own.reviewer_required # None =>
                   (plan.profile["reviewer"] # None <=> own.reviewer_required /\ rules.reviewer_required # FALSE)
            /\ \A r \in Roles : own[r] # None => plan.profile[r] \in {own[r], None}
=============================================================================
