SPECIFICATION Spec
CONSTANTS
  Accounts = {"a", "b", "c"}
  Founders = {"a", "b"}
  IdOrder <- MCOrder
  Intervals = 2
  CreateTime = 2
  Ratio = 1
  Fee = 1
  TenFees = 1
  Hundred = 2
  MaxRoutes = 2
  MaxShares = 10
  MaxDrift = 2
  Profiles <- MCProfiles
INVARIANT TotalMatchesPlatforms
