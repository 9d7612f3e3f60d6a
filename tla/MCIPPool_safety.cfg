SPECIFICATION Spec
CONSTANTS
    Pods = {p1, p2, p3}
    Selected = {p1, p2, p3}
    IPs = {a, b, c}
    NoIP = NoIP
    MaxTries = 2
    MaxLate = 1
SYMMETRY IPSymmetry
INVARIANTS NoSharedIP FreeIPAvailable IndInv
PROPERTY AllocSpec
