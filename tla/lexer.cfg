SPECIFICATION FairSpec
CONSTANTS
  Texts <- MCTexts
  LetterLeads = {"C3"}
  DigitLeads = {"D9"}
  SpaceLeads = {"C2"}
  Continuations = {"A0"}
  MaxInteger = 119
CHECK_DEADLOCK FALSE
INVARIANTS PositionsTrue StringsDecoded
PROPERTIES ImplementsWords Finishes
