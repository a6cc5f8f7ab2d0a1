\* The Admin archives a reversal.
SPECIFICATION Spec
CONSTANTS
    admin = admin
    ann = ann
    n1 = n1
    n2 = n2
    home = home
    p1 = p1
    p2 = p2
    p3 = p3
    p4 = p4
    Members = {admin, ann}
    Role <- MCRole
    Categories = {c1}
    Names = {n1, n2}
    Activities = {home}
    Events = {e1, e2}
    Amounts = {1, 2}
    Reviews = {}
    MaxVersion = 2
    None = None
    Ops = {p1, p2, p3, p4}
    Requests <- EventRequests
    Disturbances = {}
SYMMETRY Symmetry
INVARIANTS
    ArchiveOfDecidedSucceeds
