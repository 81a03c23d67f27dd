\* Two calls at a time and three pairs of tokens: a second refresh, or a second
\* sign-in, while the answer of the first is being saved.
CONSTANTS
    Users = {u1}
    Calls = {c1, c2}
    Tokens = {1, 2, 3}
    MaxLate = 1
    Nil = Nil
SYMMETRY Interchangeable
SPECIFICATION Spec
INVARIANTS  OneLiveToken LockedOutOnlyByLoss
PROPERTIES NeverBackwards
