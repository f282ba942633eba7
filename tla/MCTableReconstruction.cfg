\* Every small grid in every surrounding.
SPECIFICATION Spec
CONSTANTS
    balance = balance
    income = income
    Sections = {balance, income}
    NoSection = NoSection
    NoBox = NoBox
    Stated = income
    Tables <- Grids
    Contexts <- Pages
INVARIANTS
    TypeOK
    TrustedKeepsData
    TrustedReadsFigures
    StatusAsPromised
