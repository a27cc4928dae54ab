SPECIFICATION PpSpec
CONSTANTS
    PpPolicies = {"prefer_direct", "direct_only", "relay_only"}
    PpBytes = 2
    PpMaxFaults = 2
INVARIANTS PpPreferFallsBack
CHECK_DEADLOCK FALSE
