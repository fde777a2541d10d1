---------------------------- MODULE Organization ----------------------------
(***************************************************************************)
(* The organization the controller is built with (roles.ts):               *)
(* which agents there are, whom each reports to, and what its role contract*)
(* lets it do.  A role has one agent, so one name stands for both; of a    *)
(* contract only what the controller decides by is kept.                   *)
(***************************************************************************)
\* The superior of the orchestrator is the owner, who is no agent here.
Orchestrator == "ORCH-01"

Directors ==
  {"DIR-COMMS", "DIR-BILLING", "DIR-LEGAL", "DIR-PRODUCT", "DIR-TECH", "DIR-IMPROVE"}

\* Who works for each director.
Team ==
  [d \in Directors |->
    CASE d = "DIR-COMMS" -> {"AGT-TRIAGE", "AGT-COMMS", "AGT-CONTACT", "AGT-SCHEDULE", "AGT-COMPLAINTS"}
      [] d = "DIR-BILLING" -> {"AGT-INVOICE", "AGT-PAYMENT", "AGT-RECON", "AGT-COLLECTIONS",
                               "AGT-ADJUSTMENTS", "AGT-PAYABLES"}
      [] d = "DIR-LEGAL" -> {"AGT-LEGAL-INTAKE", "AGT-CONTRACTS", "AGT-COMPLIANCE", "AGT-IP", "AGT-COUNSEL"}
      [] d = "DIR-PRODUCT" -> {"AGT-DESIGN"}
      [] d = "DIR-TECH" -> {"AGT-BACKEND", "AGT-WEB", "AGT-MOBILE", "AGT-INTEGRATIONS", "AGT-VOICE",
                            "AGT-DEPLOY", "AGT-OPS"}
      [] d = "DIR-IMPROVE" -> {"AGT-EXPERIMENT"}]

Specialists == UNION {Team[d] : d \in Directors}

\* The specialists with an isolated workspace to write in.
Builders ==
  {"AGT-DESIGN", "AGT-BACKEND", "AGT-WEB", "AGT-MOBILE", "AGT-INTEGRATIONS", "AGT-VOICE",
   "AGT-EXPERIMENT"}

VerifyingRoles == {"DIR-SECURITY", "DIR-QUALITY", "AGT-EVALUATOR"}

\* Mutant of Judged: what the experimenter makes is left to the evaluator.
JudgedByTheEvaluator ==
  [v \in VerifyingRoles |->
    CASE v = "DIR-SECURITY" -> {"DIR-TECH", "AGT-DESIGN"} \cup Team["DIR-TECH"]
      [] v = "DIR-QUALITY" -> {"ORCH-01", "DIR-TECH", "AGT-DESIGN"} \cup Team["DIR-TECH"]
      [] v = "AGT-EVALUATOR" -> {"AGT-EXPERIMENT", "DIR-IMPROVE"}]

\* The producers each verifier is independent from.
Judged ==
  [v \in VerifyingRoles |->
    CASE v = "DIR-SECURITY" -> {"DIR-TECH", "AGT-DESIGN", "AGT-EXPERIMENT"} \cup Team["DIR-TECH"]
      [] v = "DIR-QUALITY" -> {"ORCH-01", "DIR-TECH", "AGT-DESIGN", "AGT-EXPERIMENT"} \cup Team["DIR-TECH"]
      [] v = "AGT-EVALUATOR" -> {"AGT-EXPERIMENT", "DIR-IMPROVE"}]

\* Whose passes a release needs.
GateRoles == {"DIR-SECURITY", "DIR-QUALITY"}

Coordinators == {Orchestrator} \cup Directors
Everybody == Coordinators \cup Specialists \cup VerifyingRoles

\* The agent each one reports to, or nobody.
ReportsTo(a, nobody) ==
  CASE a = Orchestrator -> nobody
    [] a \in Specialists -> CHOOSE d \in Directors : a \in Team[d]
    [] a \in Directors \cup VerifyingRoles -> Orchestrator

-----------------------------------------------------------------------------
\* Nobody has two superiors, and no role both does the work, judges it and
\* hands it on.
ASSUME TeamsAssumption ==
  /\ \A c, d \in Directors : c # d => Team[c] \cap Team[d] = {}
  /\ Builders \subseteq Specialists
  /\ Specialists \cap (Coordinators \cup VerifyingRoles) = {}
  /\ Coordinators \cap VerifyingRoles = {}
=============================================================================
