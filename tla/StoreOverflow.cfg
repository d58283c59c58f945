SPECIFICATION Spec
CONSTANTS
    Documents <- SmallDocuments
    MaxInt = 31
    MaxBytes = 80
    MaxCrashes = 0
INVARIANT ItemsReadBack
