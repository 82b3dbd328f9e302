SPECIFICATION Spec
CONSTANTS
    None = None
    pA = pA
    pB = pB
    cA = cA
    cB = cB
    mA = mA
    mB = mB
    Plans <- MCPlans
    Projects <- MCProjects
    Customers <- MCCustomers
    Managers <- MCManagers
    CustomerOf <- MCCustomerOf
    ThisWeek <- MCThisWeek
    InPlay <- MCInPlay
    Years = {2020, 2021}
    Weeks = {1, 2, 52, 53}
    PageSize = 1
    West = FALSE
INVARIANTS
    RowsOfFilters
    DetailOfRows
    ArrowMovesOneWeek
