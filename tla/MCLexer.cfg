SPECIFICATION Spec
CONSTANTS
    MaxLength = 4
    MaxEnds = 2
    Char <- MCChar
    Texts <- MCTexts
    Lines <- MCLines
INVARIANTS
    TypeOK
    StackShape
    TokensRight
    ValuesRight
PROPERTIES
    GetTokenReturns
