SPECIFICATION Spec
CONSTANTS
    Names = {n1, n2}
    MaxReloads = 2
    MaxChanges = 2
    MaxStarts = 2
INVARIANTS ListsAreKept EverythingIsOn 
 
CONSTRAINT ReloadsOrChanges
CHECK_DEADLOCK FALSE
