\* Lives of an order and a deposit over four blocks, written in every order
\* and in both ways.
CONSTANTS
    None = None
    o1 = o1
    d1 = d1
    c1 = c1
    c2 = c2
    Items = {o1, d1}
    KindOf <- MCKindOf
    Committees = {c1, c2}
    CommitteeOf <- MCCommitteeOf
    Terms = {"terms"}
    Results = {"filled", "failed"}
    Readable = {o1}
    MaxHeight = 4
SPECIFICATION Spec
INVARIANTS TypeOK BatchesAreShown LifecycleIsShown LifecycleMovesOn
