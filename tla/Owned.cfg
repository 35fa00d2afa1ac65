\* Three events of any kind: edits, status writes, deletions, crashes, faults.
SPECIFICATION FairSpec
CONSTANTS
  Unset = Unset
  Choices <- UserChoices
  MaxEvents = 3
INVARIANTS
  ConfigBeforeTemplate
  OwnerRvContained
  MadeFromCompleteSpec
PROPERTIES
  TemplateMovesForward
  UserChoicesKept
  EventuallyInLine
