\* A client with a gateway of its own and one that leaves a resident gateway behind.
SPECIFICATION FairSpec
CONSTANTS
    r1 = r1
    r2 = r2
    c1 = c1
    c2 = c2
    cwd = cwd
    home = home
    t1 = t1
    Resident = {}
    Client = {c1, c2}
    Daemon = {c2}
    File = {cwd, home}
    Cwd <- MCCwd
    Home = home
    EnvURL <- MCEnvURL
    Token <- MCToken
    NoToken = NoToken
    Hook = {h1}
    None = None
    Empty = Empty
INVARIANTS
    IInv
    OwnedGatewayGone
    NoStaleFile
    ClientAuthorised
PROPERTIES
    DaemonOutlivesClients
    FilesGoFirst
