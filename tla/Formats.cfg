\* Components of two bytes; the sample bytes include zero, the tag of an INTEGER and
\* one with the sign bit.
SPECIFICATION FormatSpec
CONSTANTS
    ComponentLen = 2
    SampleByte = {0, 2, 128}
    Pattern = {0, 255}
INVARIANTS ConversionKeepsValue KeyFormsAgree HeadersAgree SignedBytesAgree
CHECK_DEADLOCK FALSE
