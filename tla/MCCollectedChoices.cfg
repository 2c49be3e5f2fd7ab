SPECIFICATION Spec
CONSTANT Subjects <- MCSubjects
INVARIANT CollectedIsAccepted
CHECK_DEADLOCK FALSE
