SPECIFICATION Spec
CONSTANT Subjects <- MCSubjects
INVARIANT TypeOK
INVARIANT SavedAsReviewed
INVARIANT LeveledSheetIsSound
INVARIANT ReviewedIsAccepted
CHECK_DEADLOCK FALSE
