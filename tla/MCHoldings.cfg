SPECIFICATION PartsSpec
CONSTANTS
    Callers = {c1, c2}
    Currencies = {"gold", "gems"}
    Keys = {k1, k2, k3}
    Offers <- MCOffers
    Rank <- MCRank
    MaxEntries = 4
    Nobody = Nobody
    NoRow = NoRow
    NoEntry = NoEntry
    NoCall = NoCall
    NoToken = NoToken
    NoObject = NoObject
SYMMETRY Symmetry
INVARIANTS Typed LedgerAccounts LotsAreKept AnsweredTruly DevicesAreServed

CHECK_DEADLOCK FALSE
