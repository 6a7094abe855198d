SPECIFICATION Spec
CONSTANTS
    Clients = {c1}
    MaxContent = 4
    MaxDue = 3
    None = None
PROPERTIES
    EventuallyShown
    EventuallyTold
