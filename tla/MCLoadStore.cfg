SPECIFICATION Spec
CONSTANTS
  Byte = {0, 255}
  LastWord = 1
INVARIANTS TypeOK EachAccess UnalignedWord
PROPERTIES ByteSpec
