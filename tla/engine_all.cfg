SPECIFICATION FairSpec
CONSTANTS
    Main = main
    Engines <- ThreeEngines
    MaxRuns = 3
    None = none
PROPERTIES FgJoins CallsReturn ProgramsEnd
CHECK_DEADLOCK FALSE
