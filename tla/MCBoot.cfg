\* Files that boot and files that are refused.
CONSTANTS
    mistyped = mistyped
    Mistyped = mistyped
    AbsoluteURL <- MCURL
    LookupURL <- MCLookupURL
    SetEnv = {}
    Readable = {}
    RouteFiles <- MCRouteFiles
    PluginFiles <- MCPluginFiles
    Secrets <- MCSecrets
    EnvURLs <- MCEnvURLs
    Registered <- MCAllPlugins
SPECIFICATION Spec
INVARIANTS
    TypeOK
    ChainAsListed
    
CHECK_DEADLOCK FALSE
