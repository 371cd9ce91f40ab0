SPECIFICATION Spec
INVARIANTS
  TypeOK
  SubscribedBeforeCommands
  SecretBeforeQuestions
  ReadingIsNew
PROPERTIES
  PollEnds
