\* One charge, and three deliveries and verifications of it at one time.
CONSTANTS
    Users = {u1, u2}
    Refs = {p1}
    Workers = {w1, w2, w3}
    Price = 2
    Amounts = {1, 2}
    Nil = Nil
SPECIFICATION FairPaymentsSpec
INVARIANTS GrantedOnce OnlyPaidTime
PROPERTIES  LostOnlyIfCutOff
