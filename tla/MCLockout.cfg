SPECIFICATION RevokeSpec
CONSTANTS
    ada = ada
    bo = bo
    cy = cy
    wAda = wAda
    wBo = wBo
    wCy = wCy
    Person <- MCPerson
    Wallet <- MCWallet
    Role = {"ADMIN", "USER"}
    h1 = h1
    h2 = h2
    Handler <- MCHandler
    Personnel <- MCHandler
    Onboarders = {}
    Admin = {ada, bo}
    AdminWallets = {wBo}
    MaxBatch = 1
    NoPerson = NoPerson
    NoRow = NoRow
    NoCall = NoCall
    MaxFaults = 1
PROPERTY RevocationLeavesAnAdmin
CHECK_DEADLOCK FALSE
