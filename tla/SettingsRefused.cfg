SPECIFICATION SettingsSpec
CONSTANTS
    Loaders = {l1}
    Changers = {c1, c2}
    MaxChange = 3
INVARIANT SettingsInEffectAreValid
CHECK_DEADLOCK FALSE
