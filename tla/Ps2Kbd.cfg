SPECIFICATION Spec
CONSTANTS
    Plain <- MCPlain
    Extended <- MCExtended
    NoKey = NoKey
INVARIANTS
    WholeCodesAreKeys
    InStepAtTheEnd
