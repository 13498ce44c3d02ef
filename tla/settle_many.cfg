SPECIFICATION Spec
CONSTANTS
    N = 2
    Attempts = 3
PROPERTY SettlesAsPromised
