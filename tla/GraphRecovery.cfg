SPECIFICATION Spec
CONSTANTS
    a = a
    b = b
    raspberry = raspberry
    strawberry = strawberry
    butter = butter
    l1 = l1
    l2 = l2
    Orders = {1, 2, 3}
    Ingredients <- MCIngredients
    Start <- MCStart
    Constraints <- MCConstraints
    Substitute <- MCSubstitute
    Visible = {raspberry}
    Lines <- MCLines
    Commitment <- MCCommitment
    Due <- MCDue
    Brings <- MCBrings
    Quantity <- MCQuantity
    Unknown = Unknown
    None = None
    Cases = {a, b}
    InitialHand <- MCHand
    InitialPin <- MCPin
    Quantities = {1, 2}
    Losses = {1}
    MaxChanges = 1
SYMMETRY MCSymmetry
CHECK_DEADLOCK FALSE
INVARIANTS
    TypeOK
    AllocatedByTheSchedule
    RecoverableHasItsOption
PROPERTIES
    PlanFits
