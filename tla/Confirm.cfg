SPECIFICATION Spec
CONSTANTS
    remove = remove
    device = device
    ana = ana
    Confirmation = {c1, c2}
    Intent = {remove, device}
    Account = {ana, bo}
    Owner <- MCOwner
    None = none
    Process = {p, q}
    MaxOpen = 1
    Timeout = 1
    MaxAge = 0
    MaxNow = 2
SYMMETRY MCSymmetry
INVARIANTS
    HeldApart
    RoleReadNow
PROPERTY OncePerPasskey
