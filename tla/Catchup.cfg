\* Every pair of filters, pages of at most two transactions.
SPECIFICATION Spec
CONSTANTS
    Chains <- MCChains
    Texts <- MCTexts
    Levels <- MCLevels
    FilterSets <- MCFilterSets
    GroupSets <- MCGroupSets
    Windows <- MCWindows
    PageLimit = 2
INVARIANTS TypeOK SearchFindsAll SourcesAgree ChangesMatchLedger NoEventDropped EventsBehindFilter MetadataAgrees
PROPERTY SearchAdvances
