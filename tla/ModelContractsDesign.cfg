SPECIFICATION Spec
CONSTANTS
  o1 = o1
  r1 = r1
  NoContract = NoContract
  Objects <- MCObjects
  Relations <- MCRelations
  Mapping <- MCMapping
  ObjectKinds <- MCObjectKinds
  RelationKinds <- MCRelationKinds
  Designs <- MCDesigns
  Patches <- MCPatches
PROPERTY DesignKept
