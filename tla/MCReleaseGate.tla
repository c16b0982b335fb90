--------------------------- MODULE MCReleaseGate ---------------------------
(***************************************************************************)
(* A small instance of ReleaseGate: two commits of the version, a third of *)
(* another version, and the tags a maintainer may push for them.           *)
(***************************************************************************)
EXTENDS ReleaseGate

CONSTANTS c1, c2, old

MCCommit == {c1, c2, old}

Tag(commit, annotated, signed) ==
  [commit |-> commit, annotated |-> annotated, signed |-> signed]

MCTagObjects ==
  {Tag(c1, TRUE, TRUE), Tag(c2, TRUE, TRUE), Tag(old, TRUE, TRUE), Tag(c1, FALSE, FALSE)}
\* All checks passed on c1 and old; on c2 one may have failed, or not run.
MCFirstChecks ==
  {[c \in MCCommit |-> [w \in Workflow |-> IF c = c2 /\ w = failing THEN conclusion ELSE "success"]] :
     failing \in Workflow, conclusion \in {"none", "failure", "success"}}
=============================================================================
