SPECIFICATION Spec
CONSTANTS
    Offers <- MCOffers
    HostArch <- MCHostArch
    Scenarios <- MCScenarios
    Rewrites <- MCRewrites
INVARIANTS
    WithinBudget
    ApprovedSpend
    InstanceFits
    AttestedOrRefused
CHECK_DEADLOCK FALSE
