\* One run at a time over complete boundary tables.
SPECIFICATION WarehouseSpec
CONSTANTS
    Workers = {"w1"}
    Shapes <- AllShapes
    FirstShapes <- AllShapes
    Codes = {"06", "06001", "06001400100"}
    UpTo <- PrefixOf
    Years = {2020}
    Tabulated = {"06001400100"}
    Provisions <- Provisioned
    NoDim = NoDim
CHECK_DEADLOCK FALSE
INVARIANT DrillUpFollowsLevels
