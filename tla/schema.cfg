CONSTANTS
    MaxStarts = 3
SPECIFICATION Spec
INVARIANT PendingMigrationsApply
INVARIANT RevertsGoThrough
