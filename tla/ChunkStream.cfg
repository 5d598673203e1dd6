\* Messages of three to six bytes, five at most.
SPECIFICATION FairSpec
CONSTANTS
  HEADER = 3
  CHUNK_SIZE = 3
  MaxMessages = 5
INVARIANTS
  TypeOK
  OnceInOrder
  MessagesWhole
PROPERTIES
  AllServed
CHECK_DEADLOCK FALSE
