SPECIFICATION MCSpec
CONSTANTS
  Devices = {"d1", "d2"}
  Vaults = {"v1"}
  Here = "d1"
  ItemIds = {1, 2}
  Texts = {"", "a"}
  Expiries <- MCExpiries
  Dates = {"born"}
  Today = "today"
  Recognised = {"a"}
  MaxTyped = 2
  MaxRows = 1
  MaxSent = 2
INVARIANTS
  DevicesAgree
  FormShowsModel
  EditKeepsUntouched
  OpensAsMeant
CHECK_DEADLOCK FALSE
