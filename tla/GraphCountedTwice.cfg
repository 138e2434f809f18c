SPECIFICATION Spec
CONSTANTS
    a = a
    b = b
    raspberry = raspberry
    strawberry = strawberry
    butter = butter
    l1 = l1
    l2 = l2
    Orders = {1, 2, 3}
    Ingredients <- MCIngredients
    Start <- MCStart
    Constraints <- MCConstraints
    Substitute <- MCSubstitute
    Visible = {raspberry}
    Lines <- MCLines
    Commitment <- MCCommitment
    Due <- MCDue
    Brings <- MCBrings
    Quantity <- MCQuantity
    Unknown = Unknown
    None = None
    Cases = {a}
    InitialHand <- ScarceHand
    InitialPin <- MCPin
    Quantities = {1, 2}
    Losses = {1}
    MaxChanges = 0
CHECK_DEADLOCK FALSE
PROPERTY
    RefusedOnlyForWantOfUnits
