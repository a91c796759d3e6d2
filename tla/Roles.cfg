SPECIFICATION Spec
CONSTANTS
    Person = {ana, bo, cy}
    Role = {admins, staff}
    Admin = admins
    Asker = {web, cli}
    Syncer = {}
    Floor = "user"
    MaxUses = 2
    MaxAsk = 3
    MaxTrouble = 1
SYMMETRY PersonSymmetry
INVARIANTS
    AdminRemains
    RoleHeldExists
    LinkLetsInItsNumber
CHECK_DEADLOCK FALSE
