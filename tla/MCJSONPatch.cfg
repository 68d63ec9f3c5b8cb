SPECIFICATION Spec
CONSTANTS
    Atom = {x, y, z}
    MaxLen = 3
INVARIANTS
    StringPatchExact
    ObjectPatchIsItsScript
    ScriptIsShortest
