SPECIFICATION FairSpec
CONSTANTS
    e = e
    acute = acute
    dot = dot
    eacute = eacute
    Chars = {e, dot, acute, eacute}
    Letters <- MCLetters
    Normal <- MCNormal
    Class <- MCClass
    Terms <- MCTerms
    BatchSize = 2
    MaxText = 5
    MaxChunk = 3
INVARIANTS TextInOrder ShownIsStored TermsNeverStored OnlyLateBatchIsMissing
PROPERTIES RunEnds
CHECK_DEADLOCK FALSE
