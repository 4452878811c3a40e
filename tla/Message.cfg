CONSTANTS
    m1 = m1
    m2 = m2
    m3 = m3
    w1 = w1
    w2 = w2
    w3 = w3
    Msgs = {m1, m2, m3}
    Wrappers = {w1, w2, w3}
    msg_of <- MCMsgOf
    mdef <- MCMdef
    WriteHeavy = {w2, w3}
    Fields = {"i", "u", "e", "r"}
    type <- MCType
    Oneof = {"u", "e"}
    Required = {"r"}
    HasPresence = {"u", "e", "r"}
    Inputs <- MCInputs
    W32 = 2
    W64 = 3
    Radix = 2
    EnumNames = {0, 1}
    WideNames = {}
SPECIFICATION Spec
INVARIANTS
    FieldHoldsWhatWasGiven
    GettersAreFresh
    OneofIsExclusive
