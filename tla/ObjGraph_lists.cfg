SPECIFICATION Spec
CONSTANTS
  MaxOid = 3
  MaxLinks = 5
  Uses = {"push", "system", "freed"}
INVARIANTS ListsAreLinked NoCircularLinks FreeIsTheLoop
