SPECIFICATION Spec
CONSTANTS
  Beginnings <- MCBeginnings
  Vocabulary <- MCVocabulary
  MaxFree = 4
  Columns = 3
INVARIANTS
  TypeOK
  CallbacksFindTheirNodes
  SpellsTheSource
  DecidesTheGrammar
