CONSTANTS
    Error = Error
    Unset = Unset
    Garbled = Garbled
    Visible = {"a", "b", "0", "1", "2"}
    MaxDevices = 2
    Room = 2
    Decimal <- MCDecimal
    Setups <- MCSetups
    Shared <- MCShared
    Fragile <- MCFragile
    Silent = {"ascend", "mthreads", "metax", "ppu", "hcu"}
SPECIFICATION FairSpec
INVARIANTS IdleIsProven InventoryWhole
PROPERTIES Recovers
