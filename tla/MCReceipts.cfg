\* Two receipts of a Contributor's expense, the Admin, and the cleanup.
SPECIFICATION Spec
CONSTANTS
    admin = admin
    ann = ann
    r1 = r1
    r2 = r2
    Members = {admin, ann}
    Role <- MCRole
    Creator = ann
    Receipts = {r1, r2}
    Worker = Worker
    None = None
SYMMETRY MCSymmetry
INVARIANTS
    TypeOK
    AvailableIsStored
    NoStrayBytes
PROPERTIES
    AttachedWhileAllowed
    AvailableStays
