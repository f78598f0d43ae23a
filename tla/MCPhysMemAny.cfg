CONSTANTS
  NFrames = 192
  Word = 1024
  Sections <- AnySections
SPECIFICATION PhysSpec
PROPERTIES SectionIsExact
