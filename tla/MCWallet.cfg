CONSTANTS
    u1 = u1
    u2 = u2
    s1 = s1
    r1 = r1
    r2 = r2
    w1 = w1
    basic = basic
    pro = pro
    NoSpace = NoSpace
    Users = {u1, u2}
    Spaces = {s1}
    NKeys = 2
    UserOf <- mcUserOf
    SpaceOf <- mcSpaceOf
    Runs = {r1, r2}
    RunOf <- mcRunOf
    Plans = {basic, pro}
    PersonalAllowance <- mcPersonalAllowance
    SpaceAllowance <- mcSpaceAllowance
    Amounts = {2}
    Charges = {1, 3}
    Workers = {w1}
    MaxWeek = 1
SPECIFICATION Spec
INVARIANTS TypeOK ReservedExact NeverOverbilled LedgerReconciles
PROPERTIES OnlyPlanChangeUnderbacks ChargedOnce
