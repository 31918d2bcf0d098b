CONSTANTS
  Contents <- SomeContents
  Path <- SomePaths
  Provider <- Providers
SPECIFICATION Spec
CHECK_DEADLOCK FALSE
INVARIANTS NoLayerLoosens
