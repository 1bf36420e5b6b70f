\* Every kind of body at the lengths around what its reader needs; transactions with
\* none or two of each thing, at lengths around what they declare.
SPECIFICATION BodiesSpec

CONSTANTS
  Haves = {103, 135, 136, 139, 175, 176, 456, 458, 459}
  Counts = {0, 2}
  Lengths = {0, 3}
  Offsets = {0, 2}
  Usize = 64
  Bytes = {0, 1, 2, 3, 4, 5, 6, 7, 8, 9, 10, 11, 12, 13, 14, 15, 16, 17, 18, 19, 21, 255}
  Sizes = {0, 3, 4, 7, 8, 11, 16, 21, 22, 31, 32, 47, 48, 63, 64, 87, 88, 95, 96, 135, 136, 159, 160, 200, 400}
  Declared = {0, 1, 3, 9}
  MaxDictionary = 8

INVARIANTS
  SectionsLaid
  SlicesInside
  ReadsWhatFits
  FieldsInside
  NewerNodeRead
