------------------------------ MODULE MCServices ------------------------------
EXTENDS Services

Policy(keepAll, daily, weekly, monthly, minimum, runDays, maxRuns, cap) ==
    [keepAll |-> keepAll, daily |-> daily, weekly |-> weekly, monthly |-> monthly,
     minimum |-> minimum, runDays |-> runDays, maxRuns |-> maxRuns, cap |-> cap]

\* Windows without and with keep-all days; a remote one with a cap below its windows.
MCLocalPolicies == {Policy(0, 2, 2, 0, 1, 1, 1, 0), Policy(1, 0, 0, 2, 0, 2, 2, 0)}
MCRemotePolicies == {Policy(0, 2, 2, 2, 2, 0, 1, 2)}

MCBackoff == <<1, 2>>
MCIntervals == {2, 3}
=============================================================================
