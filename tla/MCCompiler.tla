----------------------------- MODULE MCCompiler -----------------------------
(* Model checking Compiler with the registry of agent-runtime/registry.ts   *)
(* and a section, faq, that it has no writer for.                           *)
EXTENDS Compiler

CONSTANTS title, bullets, description, terms, faq

Writers == [s \in Sections |-> CASE s = bullets -> 3 [] s \in {title, description} -> 2 [] OTHER -> 0]

Strict == [Blank EXCEPT !.reviewer_required = TRUE, !.candidate_count = 2 * Parts, !["writer"] = "default",
                        !["reviewer"] = "default", !["repairer"] = "default"]

RegistryOverride ==
    [s \in Sections |->
        CASE s = title -> [Blank EXCEPT !.team_template = "strict", !.candidate_count = Parts]
          [] s = description -> [Blank EXCEPT !.reviewer_required = FALSE, !.candidate_count = Parts]
          [] OTHER -> Blank]

RegistryTemplate == [n \in TemplateNames |-> IF n = "strict" THEN Strict ELSE None]

RegistryProfile ==
    [b \in Blueprints |-> IF b = "reviewer" THEN "strict" ELSE IF b = description THEN "default" ELSE "fast"]

\* Of halves (Parts = 2): one and a half, two; 0 is raised to one.
Concurrencies == {None, 0, 3, 4}

Requireds ==
    {<<title, bullets, description, terms, Translation>>, <<Translation, terms, title, title, bullets>>,
     <<description, faq>>}

\* A policy of its own for "strict", and one for a name the registry does not have.
Templates ==
    [TemplateNames -> {None, [Blank EXCEPT !.candidate_count = 3 * Parts],
                       [Blank EXCEPT !.reviewer_required = FALSE, !["writer"] = "ghost"]}]

Unsaid == [b \in Blueprints |-> None]

Specialists == {Unsaid, [Unsaid EXCEPT ![title] = "default"], [Unsaid EXCEPT !["reviewer"] = "ghost"]}

Overrides ==
    [team_template : {None, "strict", "light"}, reviewer_required : {None, TRUE, FALSE},
     candidate_count : {None, 0, 3, 4, 6}, writer : {None, "default", "ghost"}, reviewer : {None}, repairer : {None}]

Plain == [s \in Sections |-> Blank]

With(s, over) == [Plain EXCEPT ![s] = over]

\* Policies that differ as a whole, and policies that differ in what they say of a section.
SomeRules ==
    [required : Requireds, parallel : BOOLEAN, concurrency : Concurrencies, reviewer_required : {None, FALSE},
     strays : BOOLEAN, specialists : Specialists, templates : Templates, override : {Plain}]
    \cup
    [required : Requireds, parallel : {TRUE}, concurrency : {3}, reviewer_required : {None, FALSE},
     strays : {FALSE}, specialists : {Unsaid}, templates : Templates,
     override : {With(s, over) : s \in {title, bullets, description}, over \in Overrides}]
=============================================================================
