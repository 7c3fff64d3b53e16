SPECIFICATION Spec
CONSTANTS
    s1 = s1
    s2 = s2
    s3 = s3
    a = a
    b = b
    Slots = 1
    Items = {i1, i2}
    Sessions = {s1, s2, s3}
    Accounts = {a, b}
    AccountOf <- MCAccountOf
INVARIANTS TypeOK   SavingKeepsItems
SYMMETRY Symmetry
VIEW View
CONSTRAINT SomeItemLeft
CHECK_DEADLOCK FALSE
