SPECIFICATION Spec
CONSTANTS
    Clients = {c1, c2}
    Connections = {k1, k2}
    Versions = {"", "v1.0"}
    Root = ""
    Endpoints = {"limited", "closed", "unlisted"}
    Config <- MCConfig
    MaxCount = 3
INVARIANTS LimitIsKept HandledAsConfigured
