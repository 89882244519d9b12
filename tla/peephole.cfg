SPECIFICATION Spec
CONSTANTS
  MaxLength = 4
  Vocabularies <- TwoVocabularies
CHECK_DEADLOCK FALSE
INVARIANTS SameMeaning DropsMovedBack
