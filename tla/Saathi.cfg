SPECIFICATION Spec
CONSTANTS
  None = None
  NoSkill = NoSkill
  Amritsar = Amritsar
  Credit = Credit
  Ward = Ward
  Mill = Mill
  Holder = Ward
  Known = {Amritsar}
  CreditIds = {Credit}
  Sentences <- MCSentences
  Identities <- MCIdentities
  MaxAsks = 3
  MaxTicks = 2
INVARIANTS
  OnlyWhatWasAgreed
  EachProposalOnce
  AnswersAreTrue
PROPERTIES
  AskingEnds
