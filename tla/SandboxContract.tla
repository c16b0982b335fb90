-------------------------- MODULE SandboxContract --------------------------
(***************************************************************************)
(* What sandbox.Apply promises its caller: one atomic decision.  Either    *)
(* the process is refused and keeps running unconfined (the launcher then  *)
(* exits without starting the target), or it continues under a Landlock    *)
(* domain that denies everything the configuration restricts and the       *)
(* kernel can restrict, and that grants exactly the requested exceptions.  *)
(***************************************************************************)
EXTENDS SandboxPromise

VARIABLES
  request,    \* the configuration Apply is called with
  kernelABI,  \* the ABI of the running kernel, 0 when the probe fails
  outcome,    \* "running", "ok", or the reason of a refusal
  domain,     \* the Landlock domain the process runs under
  skipped     \* the <<class, path>> of the rules passed over as missing

contractVars == <<request, kernelABI, outcome, domain>>

-----------------------------------------------------------------------------
ContractInit ==
  /\ request \in Request
  /\ kernelABI \in Nat
  /\ outcome = "running"
  /\ domain = NoDomain
  /\ skipped = {}

\* A refusal leaves no trace of a domain.
Refuse ==
  /\ outcome = "running"
  /\ outcome' \in Refusals
  /\ UNCHANGED <<request, kernelABI, domain>>

\* The process is confined in one step.
Confine ==
  /\ outcome = "running"
  /\ outcome' = "ok"
  /\ Acceptable(request, kernelABI, domain', skipped')
  /\ UNCHANGED <<request, kernelABI>>

ContractNext == Refuse \/ Confine

ContractSpec == ContractInit /\ [][ContractNext]_contractVars
=============================================================================
