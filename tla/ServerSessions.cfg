SPECIFICATION FairSpec
CONSTANTS
    Tokens = {a, b}
    Users = {u, v}
    MaxPlayers = 2
    Leavings = {l1, l2}
INVARIANTS PlayersAreInWorld  ListedIsPresent
 
