SPECIFICATION MethodSpec
CONSTANTS
    Calls = {c1, c2}
INVARIANT
    ChangesRendered
