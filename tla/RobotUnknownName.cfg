CONSTANTS
    zero = zero
    up = up
    down = down
    turned = turned
    rest = rest
    pick = pick
    flat = flat
    tilted = tilted
    homeName = homeName
    typo = typo
    None = None
    Configs = {zero, up, down, turned}
    ZeroConfig = zero
    Names = {homeName, typo}
    Named <- Srdf
    Positions = {rest, pick}
    Orientations = {flat, tilted}
    FK <- Tool
    Retries = 2
    HasBackend = TRUE
    MaxCalls = 3
SPECIFICATION Spec
INVARIANT
    OnlyNamedTargets
CHECK_DEADLOCK FALSE
