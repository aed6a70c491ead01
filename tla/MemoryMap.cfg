\* Two banks of two words behind a shared word, every byte of them another.
CONSTANTS
  Common = 4
  Window = 8
  Banks = 2
  Fill = 0
  Zero = 0
  Open = 255
  Image <- NumberedImage
  Byte <- SomeByte
  Stored <- SomeStored
  Values <- SomeValues
  Addresses <- SomeAddresses
  Commands = {5, 187}
SPECIFICATION Spec
INVARIANTS ImageIntact ReadsBanked
PROPERTY ActsBanked
