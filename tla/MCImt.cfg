\* A depth-2 tree (3 nullifiers fit) offered all seven values of three bits:
\* reaches the capacity limit, and queries prefixes of one and two bits.
CONSTANTS
    Depth = 2
    Value <- ThreeBitValues
    ValueBits = 3
SPECIFICATION Spec
INVARIANTS
    SortedListWithoutGaps TreeIsCanonical NonMembershipIsExact
    AcceptedInsertionIsCanonical CohortSettlesEveryValue ShortCohortNeverMisleads
    SortedAgreesWithCohort RunsMisleadOnlyPastTheirEnd
PROPERTIES CompactStateFollows ImplementsLog
