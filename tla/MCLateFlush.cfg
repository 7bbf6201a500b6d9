SPECIFICATION Spec
CONSTANTS
    e = e
    acute = acute
    dot = dot
    eacute = eacute
    Chars = {e, dot}
    Letters <- MCLetters
    Normal <- MCNormal
    Class <- MCClass
    Terms <- MCDotted
    BatchSize = 4
    MaxText = 5
    MaxChunk = 3
INVARIANTS CompletedIsWhole
CHECK_DEADLOCK FALSE
