SPECIFICATION Spec
CONSTANTS
    Keys = {k1, k2}
    Texts <- MCTexts
    NoText = NoText
    NoKey = NoKey
    MaxQuestions = 2
INVARIANTS
    ConsentDecides
    RefusalsAreReported
PROPERTIES
    PastQuestionsAreAsked
CHECK_DEADLOCK FALSE
SYMMETRY MCSymmetry
