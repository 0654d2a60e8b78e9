\* Specs with double quotes in them, as those of two bounds on a version have.
SPECIFICATION ListSpec
CONSTANTS
    Alphabet = {"other", "quote"}
    MaxSpec = 3
    MaxSpecs = 2
PROPERTIES
    WrittenAgainTheSame
