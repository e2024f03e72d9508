\* Every order of starts and reverts, with up to three requests between them; the second
\* half of an addition comes later and is not counted.
CONSTANTS
    MaxEdits = 3
    None = None
SPECIFICATION Spec
INVARIANTS TypeOK SchemaIsHistory CodeRuns BootsAgain 
PROPERTIES OrderedKept BootKeepsRows
