SPECIFICATION Spec
CONSTANTS
  Editable <- TheKeys
  Obligatory = {"name", "zone"}
  Zone = "zone"
  Legacy = "price_class"
  Other = "other"
  Values <- TheValues
  Empty = Empty
  Garbled = Garbled
  TooLong = TooLong
  Files = {"home", "a", "example"}
  Template = "example"
  NoFile = NoFile
  Names = {"a", "b"}
  FileOf <- TheFileOf
  Blank <- TheBlank
  Starts <- Installations
  Bodies <- Posted
  Faults <- EveryFault
  MaxFailures = 1
INVARIANTS
  TypeOK
  PostIsAnUpdate
  StaysLoadable
