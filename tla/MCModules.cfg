SPECIFICATION ModulesSpec
INVARIANTS ReadsItsOwn LookupExact SourceExact ObjectsOnce
PROPERTIES ReadsWhatWasAsked OwnedUntilDropped OwnersKept
CHECK_DEADLOCK FALSE
