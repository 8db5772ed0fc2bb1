\* Three storage ids, three names, an array and a non-array type, zero and non-zero sizes.
CONSTANTS
  StorageIds = {1, 2, 3}
  Names = {n1, n2, n3}
  StorageTypes = {"array", "masstree"}
  ArraySizes = {0, 4}
  PayloadSizes = {0, 8}
  MaxStorages = 2
  NoStorage = NoStorage
SPECIFICATION Spec
INVARIANT TypeOK
