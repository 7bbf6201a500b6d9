SPECIFICATION Spec
CONSTANTS
    e = e
    acute = acute
    dot = dot
    eacute = eacute
    Chars = {e, dot, acute}
    Letters <- MCLetters
    Normal <- MCNormal
    Class <- MCClass
    Terms <- MCDotted
    BatchSize = 4
    MaxText = 4
    MaxChunk = 3
INVARIANTS CompletedIsClean
CHECK_DEADLOCK FALSE
