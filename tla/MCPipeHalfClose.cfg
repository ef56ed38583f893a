CONSTANT MaxBytes = 3
SPECIFICATION Spec
INVARIANT EOFIsPassedOn
