CONSTANTS
    f = f
    AccountId = {i1, i2, i3, i4, f}
    Foreign = {f}
    Spoofed <- MCSpoofed
    NONE = NONE
    ZeroId = ZeroId
    U128_MAX = 2
SPECIFICATION Spec
SYMMETRY Symmetry
PROPERTIES
    FreshRecipientAuthorized
