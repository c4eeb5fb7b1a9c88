\* Two handlers and one native write.
SPECIFICATION Spec
CONSTANTS
    c1 = c1
    c2 = c2
    i1 = i1
    i2 = i2
    n1 = n1
    n2 = n2
    Nobody = Nobody
    NoNumber = NoNumber
    NoRow = NoRow
    Callers <- TwoCallers
    Imsis <- TwoImsis
    Numbers <- TwoNumbers
    MaxNative = 1
INVARIANTS
    ShownNumberIsCurrent
    CompletionIsCurrent
    AckedBindingStands
    ProjectionFollows
PROPERTIES
    RequestsNeverShare
    EffectIsNotRefused
SYMMETRY Symmetry
VIEW WithoutAnswer
