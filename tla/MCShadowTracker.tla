-------------------------- MODULE MCShadowTracker --------------------------
(* The instance of ShadowTracker that TLC checks: a group that grows, and  *)
(* two portfolios, of which the second only takes wide positions.          *)
EXTENDS ShadowTracker, TLC

CONSTANTS grp, a, b, c, s1, s2

MCGroupOf == [o \in {a, b, c} |-> grp]
MCPortfolios == <<s1, s2>>
MCMaxConcurrent == [p \in {s1, s2} |-> 1]
MCMaxExposure == s1 :> 18 @@ s2 :> 12
MCExitPcts == {-50}
MCSides == {FALSE}
MCGarbled == {<<s2, 2>>}
=============================================================================
