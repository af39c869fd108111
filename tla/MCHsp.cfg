\* Pages of all kinds through the adapter of htmlstreamparser.
SPECIFICATION TestSpec
CONSTANTS
  Letters <- MCLetters
  Spaces = {" "}
  Others <- MCOthers
  Lower <- MCLower
  Script <- MCScript
  Caps <- MCCaps
  TagA <- MCTagA
  TagImg <- MCTagImg
  TagEndTitle <- MCTagEndTitle
  Href <- MCHref
  Src <- MCSrc
  Alt <- MCAlt
  TestSets <- MCTestSets
CHECK_DEADLOCK FALSE
INVARIANTS
  HspTypeOK
  TestTypeOK
  PartsOfState
  ScriptNamed
  SameCounts
  LinksCounted
  
PROPERTIES
  ScriptEnds
