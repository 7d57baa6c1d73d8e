SPECIFICATION FairUpdateSpec
CONSTANTS
  Images = {a}
  Kernel = kernel
  Pieces = 2
  KeyRecords <- MCKeyRecords
  FactoryKeys <- MCFactoryKeys
  MaxUpload = 3
  MaxCalls = 3
INVARIANTS UpdateTypeOK ListFresh
PROPERTIES KeysUpdated FlashedIsUploaded Returns
