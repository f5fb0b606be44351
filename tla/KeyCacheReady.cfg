\* The readiness claim of KeyVaultClient.ping, with a bad key and its repair.
CONSTANTS
  Callers = {c1}
  TTL = 2
  Horizon = 2
  LastVersion = 2
  Garbage <- MCGarbage
  None = None
SPECIFICATION Spec
PROPERTIES GreenMeansVerifiable
