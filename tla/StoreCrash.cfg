SPECIFICATION Spec
CONSTANTS
    Documents <- SmallDocuments
    MaxInt = 32767
    MaxBytes = 40
    MaxCrashes = 2
INVARIANT ItemsReadBack
INVARIANT CompletedWritesStay
PROPERTY ImplementsIndexedLog
