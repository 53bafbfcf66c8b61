SPECIFICATION Spec
CONSTANTS
  Names = {"host"}
  BadName = "bad..name"
  AlpnLists <- MCAlpnLists
  Preferences <- MCPreferences
  TicketLists <- MCTicketLists
  MaxHellos = 2
  ServerShares <- MCServerShares
  Alterations <- MCAlterations
  Altered <- MCAltered
  ForeignServerHellos <- MCForeignServerHellos
  ForeignExtensions <- MCForeignExtensions
INVARIANTS
  HelloUnderstood
  ChoiceSound
  LearntOfSettings
