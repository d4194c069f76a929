CONSTANTS
    Bytes = {"IAC", "WILL", "CR", "LF", "NUL", "DEL", "BS", "exit"}
    Chars = {"ESC", "[", "]", "m", ";", "31", "BEL"}
    MaxStream = 4
    MaxChunk = 3
    MaxMaps = 2
    MaxLine = 6
    Sent = {"a", "b", "nul"}
    Nul = "nul"
    MaxWritten = 4
SPECIFICATION ApartSpec
CHECK_DEADLOCK FALSE
INVARIANTS ChunksDoNotMatter TextSurvives ColoursFollow EchoPaced
