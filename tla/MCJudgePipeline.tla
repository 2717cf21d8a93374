--------------------------- MODULE MCJudgePipeline ---------------------------
(* Model checking JudgePipeline: two sections the judge may judge, one it    *)
(* may not, and the translation rules, which are no section of the listing.  *)
EXTENDS JudgePipeline

CONSTANTS title, bullets, terms, translation
==============================================================================
