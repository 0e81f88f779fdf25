SPECIFICATION Spec
CONSTANTS
    Options <- MCOptions
    MaxRecords = 1
    None = None
INVARIANTS TypeOK ReportComplete StagesEndWell
PROPERTIES StagesSeparate
VIEW MCView
CHECK_DEADLOCK FALSE
