-------------------------------- MODULE MCCalls --------------------------------
(* Instances of SkillCalls for TLC.                                           *)
EXTENDS SkillCalls

\* Two calls whose ids agree in their lowest byte.
TwoCalls == <<1, 257>>

\* Every message the two ends exchange.
AllMessages == CallMessage
=============================================================================
