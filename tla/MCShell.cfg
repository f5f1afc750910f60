CONSTANTS
  Characters = {"E", "K", " "}
  Glyphs = {"E", "K", "H", "U", "R", ">", " "}
  Space = " "
  Newline = "newline"
  MaxLine = 3
  Names <- MCNames
  Answers <- MCAnswers
  Prompt <- MCPrompt
  GlyphHeight = 2
  Screens <- MCScreens
SPECIFICATION Spec
INVARIANTS
  LineShown
  Readable
PROPERTIES
  ImplementsLineEditor
