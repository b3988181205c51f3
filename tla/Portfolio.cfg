SPECIFICATION Spec
CONSTANTS
    MaxRequests = 3
    Users = {"ann"}
    Addresses = {"a1", "a2"}
    Properties = {"p1"}
    Kinds = {"create_portfolio", "add_holding", "delete_holding", "delete_portfolio", "import", "from_property"}
    AddressOf <- AtFirstAddress
    Files <- VariedFiles
CHECK_DEADLOCK FALSE
INVARIANTS
    ImportsKeepAddressesUnique
    FromPropertyOnce
PROPERTIES
    RequestIsAtomic
