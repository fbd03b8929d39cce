---------------------------- MODULE MCTenantPool ----------------------------
(* The calls of the run: both tenants write, one of them two rows at once, *)
(* and both read: one a series, the other an export of rows that somebody  *)
(* else has put there for both.                                            *)
EXTENDS TenantPool

Row(tenant, id) == [tenant |-> tenant, id |-> id]

MCTenant == [batch |-> "A", order |-> "B", series |-> "A", export |-> "B"]
MCWritten == [batch |-> {Row("A", 1), Row("A", 2)}, order |-> {Row("B", 1)},
              series |-> {}, export |-> {}]
MCExports == {"export"}
MCBuckets == {Row("A", 3), Row("B", 4)}
MCCalls == DOMAIN MCTenant
=============================================================================
