SPECIFICATION Spec
INVARIANTS Passes
