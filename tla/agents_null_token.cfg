SPECIFICATION Spec
CONSTANTS
    a1 = a1
    a2 = a2
    a3 = a3
    s1 = s1
    s2 = s2
    Agent = {a1, a3}
    Server = {s1}
    ServerOf <- ServerOfEach
    Secret <- SecretToken
    Configured <- Tokens
    Column <- ColumnNull
    MaxIds = 2
    MaxTime = 2
    Restarts = 1
    NoToken = NoToken
INVARIANT SessionsAuthenticated
