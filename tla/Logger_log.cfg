SPECIFICATION LogSpec
CONSTANTS
    Texts = {a, b}
    debugging = FALSE
    logDepth = 3
    MAX_LOG_STRING_LENGTH = 3
INVARIANT LogTellsLastLines
