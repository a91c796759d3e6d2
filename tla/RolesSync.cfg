SPECIFICATION FairSpec
CONSTANTS
    Person = {ana, bo}
    Role = {admins, staff}
    Admin = admins
    Asker = {web}
    Syncer = {loop, soon}
    Floor = "admin"
    MaxUses = 1
    MaxAsk = 2
    MaxTrouble = 1
INVARIANT SyncedIsTrue
PROPERTY Converges
