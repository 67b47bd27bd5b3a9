SPECIFICATION Spec
CONSTANTS
    u1 = u1  u2 = u2  v1 = v1  v2 = v2  i1 = i1  i2 = i2  h1 = h1
    Users = {u1, u2}
    Sessions = {s1}
    Calls = {c1, c2}
    Vaults = {v1, v2}
    Items = {i1, i2}
    Hashes = {h1, h2}
    Nobody = Nobody
    Owner0 <- MCOwner0
    Rows0 <- MCRows0
INVARIANTS TypeOK OwnersOnly AnswersAreOwn
PROPERTIES ItemsStayInVault ImplementsPromise
