CONSTANTS
    geometry = geometry
    shapes = shapes
    repeated = repeated
    stateless = stateless
    point = point
    marker = marker
    payload = payload
    items = items
    Modules = {geometry, shapes, repeated, stateless}
    Classes = {point, marker}
    Members <- MCMembers
    ClassMembers <- MCClassMembers
    Makes <- MCMakes
    NoState = "none"
    ModuleNeeds <- MCModuleNeeds
    ClassNeeds <- MCClassNeeds
    RuntimeHost <- RuntimeHostList
    GuestHost <- GuestHostList
    RuntimeNative <- RuntimeNativeList
    GuestNative <- GuestNativeList
    MaxFrames = 3
    MaxStates = 2
    Cells = {payload, items}
    Iterators = {items}
    MaxValue = 1
SPECIFICATION Spec
INVARIANTS
    OneClassPerType
    RealisedAsDeclared
    ReferencesStable
CHECK_DEADLOCK FALSE
