\* A resident gateway removes the discovery file of another one.
SPECIFICATION Spec
CONSTANTS
    r1 = r1
    r2 = r2
    c1 = c1
    c2 = c2
    cwd = cwd
    home = home
    t1 = t1
    Resident = {r1, r2}
    Client = {}
    Daemon = {}
    File = {cwd, home}
    Cwd <- MCCwd
    Home = home
    EnvURL <- MCEnvURL
    Token <- MCToken
    NoToken = NoToken
    Hook = {h1, h2}
    None = None
    Empty = Empty
PROPERTIES
    CleanupOwnOnly
