-------------------------- MODULE QualificationPolicy --------------------------
(***************************************************************************)
(* The lead qualification of the worker (qualification-policy.ts).  A      *)
(* profile is what the policy tells apart of an enrichment result and the  *)
(* event's audience profile:                                               *)
(*   seniority  the seniority the provider classified                      *)
(*   target     the job title contains one of the event's target roles     *)
(*   relevant   the role category is SECURITY or RISK_AND_COMPLIANCE       *)
(*   size       the company's size against the event's minimum             *)
(*   industry   a regulated or technology industry                         *)
(*   signals    there are security signals                                 *)
(***************************************************************************)
EXTENDS Naturals

Seniorities == {"EXECUTIVE", "DIRECTOR", "MANAGER", "OTHER"}
Sizes       == {"match", "below", "unknown"}
AllProfiles == [seniority : Seniorities, target : BOOLEAN, relevant : BOOLEAN,
                size : Sizes, industry : BOOLEAN, signals : BOOLEAN]

QualificationStatuses == {"QUALIFIED", "REVIEW", "DISQUALIFIED"}

Points(condition, points) == IF condition THEN points ELSE 0

\* Mutant: a target role hides the points of the role category behind it.
Score_TargetRole(p) ==
  LET score ==
        (CASE p.seniority = "EXECUTIVE" -> 30
           [] p.seniority = "DIRECTOR"  -> 25
           [] p.seniority = "MANAGER"   -> 15
           [] OTHER                     -> 0)
        + (IF p.target THEN 15 ELSE Points(p.relevant, 20))
        + Points(p.size = "match", 25)
        + Points(p.industry, 10)
        + Points(p.signals, 10)
  IN IF score > 100 THEN 100 ELSE score

\* The score of qualifyLead.
Score(p) ==
  LET score ==
        (CASE p.seniority = "EXECUTIVE" -> 30
           [] p.seniority = "DIRECTOR"  -> 25
           [] p.seniority = "MANAGER"   -> 15
           [] OTHER                     -> 0)
        + (IF p.target THEN 25 ELSE Points(p.relevant, 20))
        + Points(p.size = "match", 25)
        + Points(p.industry, 10)
        + Points(p.signals, 10)
  IN IF score > 100 THEN 100 ELSE score

\* The status of qualifyLead.
qualifyLead(p) ==
  IF Score(p) >= 70 THEN "QUALIFIED"
  ELSE IF Score(p) >= 40 THEN "REVIEW"
  ELSE "DISQUALIFIED"

\* What the synthetic provider finds out about the placeholders that
\* deleteLeadData leaves of a lead: nothing.
DeletedProfile == [seniority |-> "OTHER", target |-> FALSE, relevant |-> FALSE,
                   size |-> "unknown", industry |-> FALSE, signals |-> FALSE]

=============================================================================
