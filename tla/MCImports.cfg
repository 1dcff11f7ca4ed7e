SPECIFICATION Spec
CONSTANTS
    Runtime = runtime
    Guests = {guest}
    Segments = {"p", "q", "index", "tool"}
    Names <- MCNames
    Hosts = {host, below}
    Natives = {native}
    Bundles = {indexed, plain, wide}
    NameOf <- MCNameOf
    AliasesOf <- MCAliasesOf
    Provides <- MCProvides
    MaxDenied = 1
    MaxDepth = 2
    host = host
    below = below
    native = native
    indexed = indexed
    plain = plain
    wide = wide
INVARIANTS
    BindingsSound
    DeniedNeverLoaded
    InstancesMatchBindings
PROPERTY BindingsStable
CHECK_DEADLOCK FALSE
