SPECIFICATION Spec
CONSTANTS
  Ranks = {0, 1}
  Strings <- MCStrings
  Cwd <- MCCwd
  Dir <- MCDir
  Links <- MCLinks
  Untyped <- MCUntyped
  Unread <- MCUnread
  Broken <- MCBroken
  Listing <- MCListing
  Level <- MCLevel
  Index <- MCIndex
  Commands <- MCCommands
  Lines <- MCLines
INVARIANTS
  StreamInOrder
  OptionsInAnyOrder
  IndexPacked
  ListedOnce
  SomeFile
  AllBegin
PROPERTIES Ends
