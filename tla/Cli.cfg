SPECIFICATION Spec
CONSTANTS
  FirstSize = 4
  Growth = 5
  MaxSize = 44
  MaxPar = 3
  NoLine = NoLine
  NoVal = NoVal
  NoText = NoText
  AnyKey = AnyKey
  NoId = NoId
  MaxTokens = 24
  ParLen = 3
  OutMax = 8
  Params <- MCParams
  Docs <- MCDocs
  Values <- MCValues
  Tokens <- MCTokens
  Strings <- MCStrings
  Letters = {"a", "b", "m"}
  Handlers <- MCHandlers
  Wanted <- MCWanted
  Slips = {"a", "quote", ";"}
  MaxParams = 3
  MaxSlips = 1
  MaxEntries = 3
  EntrySizes = {3, 5, 9}
INVARIANTS HandledAsAsked OutputLines
PROPERTY IsEditor
