SPECIFICATION Spec
CONSTANTS
  MaxOid = 4
  MaxLinks = 2
  Uses = {}
INVARIANTS ClonesShowObjects NoCloneChains
PROPERTY ImplementsScene
