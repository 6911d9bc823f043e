SPECIFICATION LiveSpec
CONSTANTS
  Releases = 3
  Target <- MCTarget
  MinSchema <- MCMinSchema
  MaxSchema <- MCMaxSchema
  MaxOperations = 3
  MaxData = 2
  MaxKills = 3
INVARIANTS
  OpenIsServed
PROPERTIES
  MigrationsAreCovered
  InterruptionsEnd
