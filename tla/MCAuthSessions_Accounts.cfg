SPECIFICATION Spec
CONSTANTS
    Students = {u1}
    Staff = {a1}
    NoUser = NoUser
    Phones = {p1, p2}
    NoPhone = NoPhone
    Requests = {r1, r2}
    MaxDevices = 2
    MaxSessions = 3
    MaxPasswords = 2
SYMMETRY Symmetry
CHECK_DEADLOCK FALSE
CONSTRAINT OneAccount
INVARIANTS
    OneDevicePerStudent
    PasswordRules
    ClosedAccountIsOut
    ResetDeviceIsClean
PROPERTIES
    RejectedAloneForOtherDevice
