\* Command lines, files, texts, parameters and tables, each varied by itself.
SPECIFICATION Spec
CONSTANTS
    Input <- MCInput
    AllViews = AllViews
INVARIANTS
    LastDefinitionWins
    BindsAsSaid
    CellsAsConfigured
