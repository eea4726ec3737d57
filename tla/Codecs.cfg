SPECIFICATION Spec
CONSTANTS
  ByteBits = 4
  WordBits = 16
  FieldBits = 16
  Jobs <- MCJobs
INVARIANTS TypeOK ReadsBack ExpandsBits RefusedOnlyFor
