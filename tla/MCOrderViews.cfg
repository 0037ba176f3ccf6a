SPECIFICATION VSpec
CONSTANTS
    o1 = o1
    w1 = w1
    w2 = w2
    r1 = r1
    Orders = {o1}
    Keys = {k1}
    Asset <- MCAsset
    Terms <- MCTerms
    Refs = {r1}
    Blank = Blank
    NoRef = NoRef
    NoKey = NoKey
    NoTerms = NoTerms
    GuardContexts <- MCGuardContexts
    Writers = {w1, w2}
    Readers = {v1}
    Issued <- MCIssued
    RefOf <- MCRefOf
    NoCommand = NoCommand
    NoWriter = NoWriter
SYMMETRY MCSymmetry
INVARIANTS
    ListedInCommitOrder
    TimelineNotBehind
    ReviewConsistent
