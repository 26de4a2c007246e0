\* Two filters that accept the same inner transaction.
SPECIFICATION Spec
CONSTANTS
    Chains <- MCChains
    Texts <- MCTexts
    Levels <- MCLevels
    FilterSets <- MCNestedFilterSets
    GroupSets <- MCGroupSets
    Windows <- MCWindows
    PageLimit = 2
INVARIANT NestedNamesAgree
