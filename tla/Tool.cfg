SPECIFICATION Spec
CONSTANT Starts <- MCStarts
INVARIANTS Understood ValuesKept RoundTrip ReadsJson StackAccounts
PROPERTY Ends
CHECK_DEADLOCK FALSE
