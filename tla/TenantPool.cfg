SPECIFICATION Spec
CONSTANTS
    Calls <- MCCalls
    Tenant <- MCTenant
    Written <- MCWritten
    Exports <- MCExports
    Buckets <- MCBuckets
    Absent = Absent
    Connections = {k1, k2}
INVARIANT TenantContextIsScoped
PROPERTY StoreSpec
CHECK_DEADLOCK FALSE
