------------------------------ MODULE AnalystCouncil ------------------------------
(****************************************************************************)
(* How the verdicts of the listing council are read and blended             *)
(* (agent/analyst_council.py, agent/analyst_personas.py).  A verdict is the *)
(* answer of one model call: an error, or a payload, which is any JSON.     *)
(* Scores are integers; the blend is in tenths, rounded to the nearest.     *)
(****************************************************************************)
EXTENDS Series, SequencesExt, FiniteSetsExt

Council == <<"risk_finder", "location_advantage", "depreciation_strategist", "vacancy_demand">>

Personas == Range(Council)

\* Out of ten.
Weight(persona) ==
    CASE persona = "risk_finder" -> 4
      [] persona = "location_advantage" -> 3
      [] persona = "vacancy_demand" -> 2
      [] persona = "depreciation_strategist" -> 1

NoScore == -1
Unhashable == -2   \* a thesis that is a list or an object, which no table can look up

\* The score of a thesis, NoScore for one the table does not have.
ThesisScore(thesis) ==
    CASE thesis = "aparuto_shield" -> 75
      [] thesis = "rc_stability" -> 65
      [] thesis = "shield_expired" -> 30
      [] thesis = "weak" -> 20
      [] OTHER -> NoScore

\* error is "none", "malformed_json" or "api_error"; a payload that is an
\* object has its reading: the score, 100 times the occupancy forecast, or the
\* score of the thesis, NoScore where the field is missing or no number, and
\* Unhashable for a thesis of that kind.
Verdict(persona, error, object, reading) ==
    [persona |-> persona, error |-> error, object |-> object, reading |-> reading]

\* payload.get on anything but an object raises, after _invoke_persona's
\* handlers: for the blend, or else for the summary.  So does the lookup of an
\* unhashable thesis.
Unreadable(verdicts) ==
    \E v \in Range(verdicts) : v.error = "none" /\ (~v.object \/ v.reading = Unhashable)

GivesScore(v) == v.error = "none" /\ v.reading # NoScore

Usable(verdicts) == {v \in Range(verdicts) : GivesScore(v)}

\* Mutant: the weights of personas that failed still divide the sum.
BlendOverallScore_AllWeights(verdicts) ==
    LET sum == Total(verdicts, LAMBDA v : IF GivesScore(v) THEN v.reading * Weight(v.persona)
                                          ELSE 0)
    IN  (20 * sum + 10) \div 20

\* _blend_overall_score, in tenths: the loop passes over whoever gave no score
BlendOverallScore(verdicts) ==
    LET weight == Total(verdicts, LAMBDA v : IF GivesScore(v) THEN Weight(v.persona) ELSE 0)
        sum == Total(verdicts, LAMBDA v : IF GivesScore(v) THEN v.reading * Weight(v.persona)
                                          ELSE 0)
    IN  IF weight = 0 THEN 0 ELSE (20 * sum + weight) \div (2 * weight)

\* _compose_summary: an error of a persona is part of the summary; a persona
\* may also have written none.
Mentioned(verdicts) == Where(verdicts, LAMBDA v : v.error # "none")
================================================================================
