SPECIFICATION SetupSpec
CONSTANTS
  MaxRetry = 3
  Servers = {s1, s2}
  Certs = {"a", "renewed", "b", "c"}
  Keys = {"key_a", "key_b", "key_c"}
  KeyOf <- MCKeyOf
  KindOf <- MCKindOf
  None = "none"
  MaxListens = 3
INVARIANTS OkIsSettled GoodFilesSuffice
PROPERTIES CallEnds Established TurnsEnd ClientsSeeTheirServer MismatchNeedsLeftover
