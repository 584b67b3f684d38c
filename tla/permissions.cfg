\* Requests one by one and side by side, rules, and two storages.
SPECIFICATION Spec
CONSTANTS
  Alone = c1
  Slots = {c1, c2}
  Actions = {"read", "admin"}
  MaxUsers = 2
  MaxGroups = 1
  MaxStorages = 2
  MaxRows = 3
  FewRows = 2
INVARIANT RulesAreNearest
PROPERTIES DeletionsLeaveNoRows RowsStayLocal
