SPECIFICATION Spec
CONSTANTS
    None = None
    Group <- MCGroup
    MaxNodes = 3
    Scenarios <- MCScenarios
 
PROPERTY ConnectionsEnd
