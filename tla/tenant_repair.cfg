CONSTANTS
  Caller = {q1, q2}
  Nobody = Nobody
SPECIFICATION TenantSpec
INVARIANTS
  RepairableIsRepaired
CHECK_DEADLOCK FALSE
